---- MODULE Spec2Model ----
(***************************************************************************)
(* Model of simple_regex::nfa_vm (src/regex.hpp, second half of the file): *)
(* the three-pass compiler (tokenise, nearly_shunting_yard,                *)
(* compile_nfa_sg), create_prog_ruin, the Thompson simulator (new_thread,  *)
(* match), the lazy DFA cache (cache_element, cache) and test.             *)
(*                                                                         *)
(* Strings are sequences of bytes 0..255.  C++ indices are 0-based, so     *)
(* Rd(s, i) reads s[i].  A pointer is a record: Null, OpPtr(i) (the        *)
(* address of op i of a program) or SlotPtr(i, f) (the address of field f  *)
(* of op i, which the compiler stores type-punned in an op* field while    *)
(* the field is on a dangling list).                                       *)
(*                                                                         *)
(* Every operator that models code which can throw or run into undefined   *)
(* behaviour returns a record with a field err: "ok", "BadSyntax" and      *)
(* "InvalidUtf8" (std::invalid_argument), "RuntimeError"                   *)
(* (std::runtime_error) or "UB" (a read or write the language leaves       *)
(* undefined: null or type-punned pointer dereference, out-of-bounds       *)
(* index).                                                                 *)
(***************************************************************************)
EXTENDS Integers, Sequences, FiniteSets, TLC

\* ------------------------------------------------------------------------
\* Bytes the code switches on
\* ------------------------------------------------------------------------
NUL    == 0
LPAREN == 40
RPAREN == 41
STAR   == 42
PLUS   == 43
MINUS  == 45
DOT    == 46
DIGIT0 == 48
DIGIT9 == 57
QMARK  == 63
UPPERA == 65
UPPERZ == 90
LBRACK == 91
BSLASH == 92
RBRACK == 93
CH_a   == 97
CH_b   == 98
CH_z   == 122
BAR    == 124

\* ------------------------------------------------------------------------
\* Bounds of the model
\* ------------------------------------------------------------------------
\* MaxPatLen: the longest pattern compiled under SpecCompile.
\* MaxFreshPatLen, MaxFreshTextLen: the longest pattern and text under
\* SpecFresh, where one call is made on a new engine.  MaxRunPatLen,
\* MaxTextLen, MaxCalls, MaxRecompiles: the longest pattern and text, the
\* number of calls made on one engine and the number of recompiles among
\* them under Spec.  MaxTwoPatLen: the longest the pattern of the
\* constructor and the pattern of the recompile are together under
\* SpecCompile.  MaxUtf8Len: the most code points of a text under SpecUtf8.
MaxPatLen == 5
MaxFreshPatLen == 4
MaxFreshTextLen == 3
MaxRunPatLen == 3
MaxTextLen == 1
MaxCalls == 3
MaxRecompiles == 1
MaxTwoPatLen == 7
MaxUtf8Len == 2

\* ------------------------------------------------------------------------
\* Generic helpers
\* ------------------------------------------------------------------------
Last(s)  == s[Len(s)]
Front(s) == SubSeq(s, 1, Len(s) - 1)
Min(a, b) == IF a < b THEN a ELSE b

\* s[i] of a std::string: s[size()] is the terminating NUL
Rd(s, i) == IF i < Len(s) THEN s[i + 1] ELSE NUL
\* s[i] with i > size() is out of bounds
OOB(s, i) == i > Len(s)
\* i < s.size() - k in size_t arithmetic: s.size() - k wraps to a huge
\* number when k > s.size()
LtSizeMinus(i, s, k) == IF Len(s) >= k THEN i < Len(s) - k ELSE TRUE

RECURSIVE Pow2(_)
Pow2(n) == IF n = 0 THEN 1 ELSE 2 * Pow2(n - 1)
Shr(x, n) == x \div Pow2(n)
LowByte(x) == x % 256
\* With(e, Body) is Body(e): the value e is named once and used as often as
\* Body needs it
With(e, Body(_)) == Body(e)

Null == [k |-> "null", i |-> 0, f |-> "-"]
OpPtr(i) == [k |-> "op", i |-> i, f |-> "-"]
SlotPtr(i, f) == [k |-> "slot", i |-> i, f |-> f]

Ok(r) == r.err = "ok"

\* ------------------------------------------------------------------------
\* UTF-8 codec
\* ------------------------------------------------------------------------
utf_bytes(start_byte) ==
  IF start_byte < 192 THEN 1
  ELSE 4 - (IF start_byte < 224 THEN 1 ELSE 0) - (IF start_byte < 240 THEN 1 ELSE 0)

peek_next(s, st) == IF st + 1 < Len(s) THEN s[st + 2] ELSE NUL

\* A uint32_t is kept as its four bytes, least significant first, so that a
\* code point packed in reverse byte order (pack_rev4byte) is the tuple of
\* its bytes padded with zeros, and equality of tuples is equality of the
\* packed words.
U32(v) == <<v % 256, (v \div 256) % 256, (v \div 65536) % 256, v \div 16777216>>
U32Val(w) == w[1] + 256 * w[2] + 65536 * w[3]

\* get_utf8_n_inc: the code point at idx packed in reverse byte order, and
\* idx moved to the last byte of the code point
get_utf8_n_inc(str, idx) ==
  LET n == utf_bytes(Rd(str, idx))
      b(k) == IF k < n THEN Rd(str, idx + k) ELSE 0
  IN IF n = 1 THEN [cp |-> <<b(0), 0, 0, 0>>, idx |-> idx, err |-> "ok"]
     ELSE IF ~LtSizeMinus(idx, str, n - 1)
          THEN [cp |-> <<b(0), 0, 0, 0>>, idx |-> idx, err |-> "InvalidUtf8"]
     ELSE IF OOB(str, idx + n - 1)
          THEN [cp |-> <<b(0), 0, 0, 0>>, idx |-> idx, err |-> "UB"]
     ELSE [cp |-> <<b(0), b(1), b(2), b(3)>>, idx |-> idx + n - 1, err |-> "ok"]

\* ------------------------------------------------------------------------
\* Pass 1: tokenise
\* ------------------------------------------------------------------------
\* The switch on utf_bytes that copies one code point from s[i] to out and
\* leaves i on its last byte (tokenise; nearly_shunting_yard repeats it)
copy_code_point(s, i, out) ==
  LET n == utf_bytes(Rd(s, i))
  IN IF n = 1 THEN [i |-> i, out |-> Append(out, Rd(s, i)), err |-> "ok"]
     ELSE IF ~LtSizeMinus(i, s, n - 1)
          THEN [i |-> i, out |-> out, err |-> "InvalidUtf8"]
     ELSE IF OOB(s, i + n - 1)
          THEN [i |-> i, out |-> out, err |-> "UB"]
     ELSE [i |-> i + n - 1,
           out |-> out \o [k \in 1..n |-> Rd(s, i + k - 1)],
           err |-> "ok"]

\* The loop that copies a class verbatim up to, not including, its ']'
RECURSIVE copy_class(_, _, _)
copy_class(s, i, out) ==
  IF Rd(s, i) = RBRACK THEN [i |-> i, out |-> out, err |-> "ok"]
  ELSE IF i + 1 = Len(s)
       THEN [i |-> i + 1, out |-> Append(out, Rd(s, i)), err |-> "BadSyntax"]
       ELSE copy_class(s, i + 1, Append(out, Rd(s, i)))

RECURSIVE tokenise_from(_, _, _)
tokenise_from(regex, i, tokenised) ==
  IF i >= Len(regex) THEN [out |-> tokenised, err |-> "ok"]
  ELSE IF Rd(regex, i) = NUL THEN tokenise_from(regex, i + 1, tokenised)
  ELSE
    LET c == IF Rd(regex, i) = LBRACK THEN copy_class(regex, i, tokenised)
             ELSE [i |-> i, out |-> tokenised, err |-> "ok"]
    IN IF ~Ok(c) THEN [out |-> c.out, err |-> c.err]
       ELSE
         LET u == copy_code_point(regex, c.i, c.out)
         IN IF ~Ok(u) THEN [out |-> u.out, err |-> u.err]
            ELSE
              LET j == u.i
                  n == peek_next(regex, j)
                  esc == Rd(regex, j) = BSLASH /\ n # NUL
                  j2 == IF esc THEN j + 1 ELSE j
                  o2 == IF esc THEN Append(u.out, Rd(regex, j + 1)) ELSE u.out
                  o3 == IF n # NUL /\ n \notin {RPAREN, BAR, STAR, PLUS, QMARK}
                        THEN Append(o2, NUL) ELSE o2
              IN IF Rd(regex, j) \in {BAR, LPAREN}
                 THEN tokenise_from(regex, j + 1, u.out)
                 ELSE tokenise_from(regex, j2 + 1, o3)

tokenise(regex) == tokenise_from(regex, 0, <<>>)

\* ------------------------------------------------------------------------
\* Pass 2: nearly_shunting_yard
\* ------------------------------------------------------------------------
\* -1 stands for the std::invalid_argument of the default case
opt_precedence(c) ==
  CASE c = BSLASH -> 100
    [] c = LPAREN -> 90
    [] c = LBRACK -> 80
    [] c \in {QMARK, STAR, PLUS} -> 70
    [] c = NUL -> 60
    [] c = BAR -> 50
    [] OTHER -> -1

RECURSIVE pop_stack_presedence(_, _, _)
pop_stack_presedence(c, optstack, processed) ==
  IF Len(optstack) = 0
  THEN [optstack |-> <<c>>, processed |-> processed, err |-> "ok"]
  ELSE IF opt_precedence(c) = -1 \/ opt_precedence(Last(optstack)) = -1
       THEN [optstack |-> optstack, processed |-> processed, err |-> "BadSyntax"]
  ELSE IF opt_precedence(c) > opt_precedence(Last(optstack)) \/ Last(optstack) = LPAREN
       THEN [optstack |-> Append(optstack, c), processed |-> processed, err |-> "ok"]
       ELSE pop_stack_presedence(c, Front(optstack), Append(processed, Last(optstack)))

\* case ')': pop operators to the output until '(' is on top.  back() of an
\* empty operator stack is undefined.
RECURSIVE pop_to_lparen(_, _)
pop_to_lparen(optstack, processed) ==
  IF Len(optstack) = 0
  THEN [optstack |-> optstack, processed |-> processed, err |-> "UB"]
  ELSE IF Last(optstack) = LPAREN
       THEN [optstack |-> optstack, processed |-> processed, err |-> "ok"]
  ELSE IF Len(optstack) = 1
       THEN [optstack |-> <<>>, processed |-> Append(processed, Last(optstack)),
             err |-> "BadSyntax"]
       ELSE pop_to_lparen(Front(optstack), Append(processed, Last(optstack)))

\* the final flush of the operator stack
RECURSIVE flush_stack(_, _)
flush_stack(optstack, processed) ==
  IF Len(optstack) = 0 THEN processed
  ELSE flush_stack(Front(optstack), Append(processed, Last(optstack)))

RECURSIVE shunt_from(_, _, _, _)
shunt_from(tokenised, i, operator_stack, processed) ==
  IF i >= Len(tokenised)
  THEN [out |-> flush_stack(operator_stack, processed), err |-> "ok"]
  ELSE
    LET t == Rd(tokenised, i)
    IN CASE t = BSLASH ->
              shunt_from(tokenised, i + 2, operator_stack,
                         processed \o <<t, Rd(tokenised, i + 1)>>)
         [] t = LPAREN ->
              shunt_from(tokenised, i + 1, Append(operator_stack, t),
                         Append(processed, t))
         [] t = RPAREN ->
              LET r == pop_to_lparen(operator_stack, processed)
              IN IF ~Ok(r) THEN [out |-> r.processed, err |-> r.err]
                 ELSE shunt_from(tokenised, i + 1, Front(r.optstack),
                                 Append(r.processed, t))
         [] t = LBRACK ->
              LET c == copy_class(tokenised, i, processed)
              IN IF ~Ok(c) THEN [out |-> c.out, err |-> c.err]
                 ELSE shunt_from(tokenised, c.i + 1, operator_stack,
                                 Append(c.out, Rd(tokenised, c.i)))
         [] t = RBRACK -> [out |-> processed, err |-> "BadSyntax"]
         [] t \in {QMARK, STAR, PLUS, NUL, BAR} ->
              LET r == pop_stack_presedence(t, operator_stack, processed)
              IN IF ~Ok(r) THEN [out |-> r.processed, err |-> r.err]
                 ELSE shunt_from(tokenised, i + 1, r.optstack, r.processed)
         [] OTHER ->
              LET u == copy_code_point(tokenised, i, processed)
              IN IF ~Ok(u) THEN [out |-> u.out, err |-> u.err]
                 ELSE shunt_from(tokenised, u.i + 1, operator_stack, u.out)

nearly_shunting_yard(tokenised) == shunt_from(tokenised, 0, <<>>, <<>>)

\* ------------------------------------------------------------------------
\* utf8_bitmap: the four tiers as sets of bit indices
\* ------------------------------------------------------------------------
utf_2byte_h(a, b) == (b % 64) + (a % 32) * 64
utf_3byte_h(a, b, c) == (c % 64) + (b % 64) * 64 + (a % 16) * 4096

EmptyBitmap == [ascii |-> {}, latin |-> {}, bmp |-> {}, others |-> {}]

\* utf8_bitmap::insert(a), insert(a, b), insert(a, b, c), insert(a, b, c, d)
bitmap_insert(m, n, a, b, c, d) ==
  CASE n = 1 -> [m EXCEPT !.ascii = @ \cup {a}]
    [] n = 2 -> [m EXCEPT !.latin = @ \cup {utf_2byte_h(a, b)}]
    [] n = 3 -> [m EXCEPT !.bmp = @ \cup {utf_3byte_h(a, b, c)}]
    [] OTHER -> [m EXCEPT !.others =
                   @ \cup {<<(a % 8) * 64 + (b % 32), (c % 32) * 64 + (d % 32)>>}]

\* utf8_bitmap::test(a), test(a, b), test(a, b, c), test(a, b, c, d)
bitmap_test(m, n, a, b, c, d) ==
  CASE n = 1 -> a \in m.ascii
    [] n = 2 -> utf_2byte_h(a, b) \in m.latin
    [] n = 3 -> utf_3byte_h(a, b, c) \in m.bmp
    [] OTHER -> <<(a % 8) * 64 + (b % 32), (c % 32) * 64 + (d % 32)>> \in m.others

insert_rev4byte(m, w) == bitmap_insert(m, utf_bytes(w[1]), w[1], w[2], w[3], w[4])
test_rev4byte(m, w) == bitmap_test(m, utf_bytes(w[1]), w[1], w[2], w[3], w[4])

\* ------------------------------------------------------------------------
\* char_class
\* ------------------------------------------------------------------------
\* The three masks, uint64_t lower_data[4], as the 32 bytes of their object
\* representation on a little-endian host, least significant byte of each
\* word first: {0, 576460743713488896L, 0, 0} for a-z (576460743713488896 =
\* 0x07FFFFFE00000000), {0, 134217726L, 0, 0} for A-Z (134217726 =
\* 0x07FFFFFE), {287948901175001088L, 0, 0, 0} for 0-9
\* (287948901175001088 = 0x03FF000000000000).
ZeroWord == <<0, 0, 0, 0, 0, 0, 0, 0>>
lower_data == ZeroWord \o <<0, 0, 0, 0, 254, 255, 255, 7>> \o ZeroWord \o ZeroWord
upper_data == ZeroWord \o <<254, 255, 255, 7, 0, 0, 0, 0>> \o ZeroWord \o ZeroWord
digit_data == <<0, 0, 0, 0, 0, 0, 255, 3>> \o ZeroWord \o ZeroWord \o ZeroWord
\* the bytes read with the high bit of each byte first
mask_bits_high_bit_first(data) ==
  {idx \in 0..255 : Shr(data[(idx \div 8) + 1], 7 - (idx % 8)) % 2 = 1}

\* std::memcpy(lower_mask.data(), lower_data, sizeof(lower_data)), read as
\* bitmap<256>::test reads: idx is bit idx & 7 of byte idx >> 3
mask_bits(data) == {idx \in 0..255 : Shr(data[(idx \div 8) + 1], idx % 8) % 2 = 1}

RECURSIVE char_class(_, _, _)
char_class(s, st, ret) ==
  LET next_char == Rd(s, st)
      n == utf_bytes(next_char)
      range(hi, data) ==
        IF peek_next(s, st) = MINUS /\ peek_next(s, st + 1) = hi
        THEN [st |-> st + 3, m |-> [ret EXCEPT !.ascii = @ \cup mask_bits(data)], err |-> "ok"]
        ELSE [st |-> st + 1, m |-> bitmap_insert(ret, 1, next_char, 0, 0, 0), err |-> "ok"]
      multi ==
        IF ~LtSizeMinus(st, s, n)
        THEN [st |-> st, m |-> ret, err |-> "InvalidUtf8"]
        ELSE IF OOB(s, st + n - 1)
        THEN [st |-> st, m |-> ret, err |-> "UB"]
        ELSE IF \E k \in 1..(n - 1) : Rd(s, st + k) = RBRACK
        THEN [st |-> st, m |-> ret, err |-> "InvalidUtf8"]
        ELSE [st |-> st + n,
              m |-> bitmap_insert(ret, n, next_char, Rd(s, st + 1),
                                  IF n > 2 THEN Rd(s, st + 2) ELSE 0,
                                  IF n > 3 THEN Rd(s, st + 3) ELSE 0),
              err |-> "ok"]
      e == CASE next_char = CH_a -> range(CH_z, lower_data)
             [] next_char = UPPERA -> range(UPPERZ, upper_data)
             [] next_char = DIGIT0 -> range(DIGIT9, digit_data)
             [] OTHER -> IF n = 1
                         THEN [st |-> st + 1,
                               m |-> bitmap_insert(ret, 1, next_char, 0, 0, 0),
                               err |-> "ok"]
                         ELSE multi
  IN IF OOB(s, st) THEN [m |-> ret, ret_end |-> st, err |-> "UB"]
     ELSE IF next_char = RBRACK THEN [m |-> ret, ret_end |-> st, err |-> "ok"]
     ELSE IF ~Ok(e) THEN [m |-> e.m, ret_end |-> e.st, err |-> e.err]
     ELSE IF e.st >= Len(s) THEN [m |-> e.m, ret_end |-> e.st, err |-> "BadSyntax"]
     ELSE char_class(s, e.st, e.m)

\* ------------------------------------------------------------------------
\* Pass 3: compile_nfa_sg (Thompson fragments)
\* ------------------------------------------------------------------------
\* struct op; gen is -1 after construction
Op(opt, data, lb, rb) == [opt |-> opt, data |-> U32(data), gen |-> -1, lb |-> lb, rb |-> rb]
\* nfa_frag(op& spos): the op and its lb as the one-element dangling list
Frag(i) == [sp |-> OpPtr(i), start |-> SlotPtr(i, "lb"), end |-> SlotPtr(i, "lb")]

GetSlot(prog, slot) == prog[slot.i + 1][slot.f]
SetSlot(prog, slot, val) == [prog EXCEPT ![slot.i + 1][slot.f] = val]

\* patch: walk the dangling list from frag.start and store pos in every
\* field of it.  A field that holds an op* or a null terminates the walk; an
\* op* read as an op** is a type-punned dereference.
RECURSIVE patch_walk(_, _, _)
patch_walk(prog, next, pos) ==
  CASE next.k = "null" -> [prog |-> prog, err |-> "ok"]
    [] next.k = "slot" -> patch_walk(SetSlot(prog, next, pos), GetSlot(prog, next), pos)
    [] OTHER -> [prog |-> prog, err |-> "UB"]

patch(prog, nfa_frag, pos) ==
  patch_walk(SetSlot(prog, nfa_frag.start, pos), GetSlot(prog, nfa_frag.start), pos)

\* fuse: store the address of f2's list head in the field f1.end points to.
\* f1 is passed by value, so the assignment f1.end = f2.end is lost.
fuse(prog, f1, f2) == SetSlot(prog, f1.end, f2.start)

\* compile_char: ANY for '.', else CHAR with the code point at ret_idx
compile_char(cs, processed, ret_idx) ==
  IF Rd(processed, ret_idx) = DOT
  THEN [cs EXCEPT !.prog = Append(@, [Op("ANY", 0, Null, Null) EXCEPT !.data = U32(0)]),
                  !.f_stack = Append(@, Frag(Len(cs.prog))),
                  !.i = ret_idx]
  ELSE LET u == get_utf8_n_inc(processed, ret_idx)
       IN IF ~Ok(u) THEN [cs EXCEPT !.err = u.err]
          ELSE [cs EXCEPT !.prog = Append(@, [Op("CHAR", 0, Null, Null) EXCEPT !.data = u.cp]),
                          !.f_stack = Append(@, Frag(Len(cs.prog))),
                          !.i = u.idx]

\* One iteration of the token loop.  cs.i is the index of the token; the
\* result has cs.i on the last byte the iteration consumed.
compile_token(cs, processed) ==
  LET i == cs.i
      t == Rd(processed, i)
      n == Len(cs.prog)            \* index of the op emitted by this token
      f1 == Len(cs.f_stack)        \* 1-based position of the top fragment
      top == cs.f_stack[f1]
      save(slot) ==
        LET p == patch(Append(cs.prog, Op("SAVE", slot, Null, Null)), top, OpPtr(n))
        IN [cs EXCEPT !.prog = p.prog, !.err = p.err,
                      !.f_stack[f1].start = SlotPtr(n, "lb"),
                      !.f_stack[f1].end = SlotPtr(n, "lb")]
      split == Append(cs.prog, Op("SPLIT", 0, top.sp, Null))
  IN CASE t = BSLASH ->
            IF peek_next(processed, i) # NUL
            THEN compile_char(cs, processed, i + 1) ELSE cs
       [] t = LPAREN -> [save(cs.lsave) EXCEPT !.lsave = @ + 2]
       [] t = RPAREN -> [save(cs.rsave) EXCEPT !.rsave = @ + 2]
       [] t = LBRACK ->
            LET c == char_class(processed, i + 1, EmptyBitmap)
            IN IF ~Ok(c) THEN [cs EXCEPT !.err = c.err]
               ELSE [cs EXCEPT !.classes = Append(@, c.m),
                               !.prog = Append(@, Op("CLASS", cs.class_c, Null, Null)),
                               !.f_stack = Append(@, Frag(n)),
                               !.class_c = @ + 1,
                               !.i = c.ret_end]
       [] t = RBRACK -> [cs EXCEPT !.err = "BadSyntax"]
       [] t = QMARK ->
            [cs EXCEPT !.prog = SetSlot(split, top.end, SlotPtr(n, "rb")),
                       !.f_stack[f1].end = SlotPtr(n, "rb"),
                       !.f_stack[f1].sp = OpPtr(n)]
       [] t = STAR ->
            LET p == patch(split, top, OpPtr(n))
            IN [cs EXCEPT !.prog = p.prog, !.err = p.err,
                          !.f_stack[f1].sp = OpPtr(n),
                          !.f_stack[f1].start = SlotPtr(n, "rb"),
                          !.f_stack[f1].end = SlotPtr(n, "rb")]
       [] t = PLUS ->
            LET p == patch(split, top, OpPtr(n))
            IN [cs EXCEPT !.prog = p.prog, !.err = p.err,
                          !.f_stack[f1].start = SlotPtr(n, "rb"),
                          !.f_stack[f1].end = SlotPtr(n, "rb")]
       [] t = NUL ->
            IF f1 < 2 THEN [cs EXCEPT !.err = "UB"]
            ELSE LET p == patch(cs.prog, cs.f_stack[f1 - 1], top.sp)
                 IN [cs EXCEPT !.prog = p.prog, !.err = p.err,
                               !.f_stack = [Front(cs.f_stack) EXCEPT
                                              ![f1 - 1].start = top.start,
                                              ![f1 - 1].end = top.end]]
       [] t = BAR ->
            IF f1 < 2 THEN [cs EXCEPT !.err = "UB"]
            ELSE [cs EXCEPT !.prog = fuse(Append(cs.prog,
                                                 Op("SPLIT", 0, cs.f_stack[f1 - 1].sp, top.sp)),
                                          cs.f_stack[f1 - 1], top),
                            !.f_stack = [Front(cs.f_stack) EXCEPT ![f1 - 1].sp = OpPtr(n)]]
       [] OTHER -> compile_char(cs, processed, i)

RECURSIVE compile_loop(_, _)
compile_loop(cs, processed) ==
  IF ~Ok(cs) \/ cs.i >= Len(processed) THEN cs
  ELSE LET r == compile_token(cs, processed)
       IN compile_loop([r EXCEPT !.i = @ + 1], processed)

\* the last two statements that build prog: emit MATCH and link the op
\* before it, the SAVE of slot 1, to it
emit_match(prog) ==
  [Append(prog, Op("MATCH", 0, Null, Null)) EXCEPT ![Len(prog)].lb = OpPtr(Len(prog))]

\* compile_nfa_sg, from the value of save_points it starts with
compile_nfa_sg(processed, save_points) ==
  With(compile_loop([prog |-> <<Op("SAVE", save_points, Null, Null)>>,
                     f_stack |-> <<Frag(0)>>, lsave |-> 2, rsave |-> 3, class_c |-> 0,
                     classes |-> <<>>, i |-> 0, err |-> "ok"], processed),
       LAMBDA cs :
         LET fail(e) == [prog |-> cs.prog, classes |-> cs.classes,
                         save_points |-> save_points + 2, err |-> e]
         IN IF ~Ok(cs) THEN fail(cs.err)
            ELSE IF Len(cs.f_stack) # 2 THEN fail("RuntimeError")
            ELSE With(patch(Append(cs.prog, Op("SAVE", 1, Null, Null)),
                            cs.f_stack[1], cs.f_stack[2].sp),
                      LAMBDA p1 :
                        IF ~Ok(p1) THEN fail(p1.err)
                        ELSE With(patch(p1.prog, cs.f_stack[2], OpPtr(Len(cs.prog))),
                                  LAMBDA p2 :
                                    IF ~Ok(p2) THEN fail(p2.err)
                                    ELSE [prog |-> emit_match(p2.prog),
                                          classes |-> cs.classes,
                                          save_points |-> cs.lsave, err |-> "ok"])))

\* ------------------------------------------------------------------------
\* create_prog_ruin
\* ------------------------------------------------------------------------
\* the loop without lp = lp->lb: it never leaves a SAVE op
skip_save_stay(prog, lp, fuel) ==
  IF lp.k # "op" THEN [lp |-> lp, err |-> "UB"]
  ELSE IF prog[lp.i + 1].opt # "SAVE" THEN [lp |-> lp, err |-> "ok"]
  ELSE [lp |-> lp, err |-> "Hang"]

\* while (lp->opt == SAVE) lp = lp->lb;  fuel counts the remaining
\* iterations before the walk must have entered a cycle
RECURSIVE skip_save(_, _, _)
skip_save(prog, lp, fuel) ==
  IF lp.k # "op" THEN [lp |-> lp, err |-> "UB"]
  ELSE IF prog[lp.i + 1].opt # "SAVE" THEN [lp |-> lp, err |-> "ok"]
  ELSE IF fuel = 0 THEN [lp |-> lp, err |-> "Hang"]
  ELSE skip_save(prog, prog[lp.i + 1].lb, fuel - 1)

\* save_count[i]: the number of SAVE ops among prog[0..i]
save_count(prog, i) == Cardinality({j \in 0..i : prog[j + 1].opt = "SAVE"})

\* the link of a kept op, rewritten to skip SAVE ops and to index prog_ruin
ruin_link(prog, link) ==
  IF link.k = "null" THEN [lp |-> Null, err |-> "ok"]
  ELSE LET s == skip_save(prog, link, Len(prog))
       IN IF ~Ok(s) THEN s
          ELSE [lp |-> OpPtr(s.lp.i - save_count(prog, s.lp.i)), err |-> "ok"]

RECURSIVE ruin_from(_, _, _)
ruin_from(prog, i, prog_ruin) ==
  IF i >= Len(prog) THEN [prog_ruin |-> prog_ruin, err |-> "ok"]
  ELSE IF prog[i + 1].opt = "SAVE" THEN ruin_from(prog, i + 1, prog_ruin)
  ELSE LET l == ruin_link(prog, prog[i + 1].lb)
           r == ruin_link(prog, prog[i + 1].rb)
       IN IF ~Ok(l) THEN [prog_ruin |-> prog_ruin, err |-> l.err]
          ELSE IF ~Ok(r) THEN [prog_ruin |-> prog_ruin, err |-> r.err]
          ELSE ruin_from(prog, i + 1,
                         Append(prog_ruin, [prog[i + 1] EXCEPT !.lb = l.lp, !.rb = r.lp]))

create_prog_ruin(prog) ==
  With(skip_save(prog, prog[1].lb, Len(prog)), LAMBDA s :
    IF ~Ok(s) THEN [prog_ruin |-> <<>>, prog_ruin_start |-> 0, err |-> s.err]
    ELSE With(ruin_from(prog, 0, <<>>), LAMBDA r :
           [prog_ruin |-> r.prog_ruin,
            prog_ruin_start |-> s.lp.i - save_count(prog, s.lp.i),
            err |-> r.err]))

\* ------------------------------------------------------------------------
\* The compile pipeline shared by the constructor and recompile:
\* tokenise, nearly_shunting_yard, compile_nfa_sg, create_prog_ruin
\* ------------------------------------------------------------------------
compile_pipeline(regex, save_points) ==
  LET none == [prog |-> <<>>, prog_ruin |-> <<>>, prog_ruin_start |-> 0,
               classes |-> <<>>, save_points |-> save_points, tokens |-> <<>>,
               notquitepostfix |-> <<>>]
  IN With(tokenise(regex), LAMBDA tk :
       IF ~Ok(tk) THEN [none EXCEPT !.tokens = tk.out] @@ [err |-> tk.err]
       ELSE With(nearly_shunting_yard(tk.out), LAMBDA sy :
         IF ~Ok(sy)
         THEN [none EXCEPT !.tokens = tk.out, !.notquitepostfix = sy.out] @@ [err |-> sy.err]
         ELSE With(compile_nfa_sg(sy.out, save_points), LAMBDA c :
           IF ~Ok(c)
           THEN [none EXCEPT !.tokens = tk.out, !.notquitepostfix = sy.out,
                             !.prog = c.prog, !.classes = c.classes,
                             !.save_points = c.save_points] @@ [err |-> c.err]
           ELSE With(create_prog_ruin(c.prog), LAMBDA pr :
             [prog |-> c.prog, prog_ruin |-> pr.prog_ruin,
              prog_ruin_start |-> pr.prog_ruin_start, classes |-> c.classes,
              save_points |-> c.save_points, tokens |-> tk.out,
              notquitepostfix |-> sy.out, err |-> pr.err]))))

\* ------------------------------------------------------------------------
\* Thompson simulator: new_thread and match
\* ------------------------------------------------------------------------
\* struct thread: an op pointer and the capture vector
Thread(ops, m_loc) == [ops |-> ops, m_loc |-> m_loc]
\* thread(op* o, uint32_t n): n zeroed capture slots
ZeroLoc(n) == [k \in 1..n |-> 0]

\* new_thread(pool, t, i).  st = [prog, pool, err]: the program (for the
\* gen stamps) and the pool the call appends to.  i is the uint32_t
\* argument, with -1 standing for 0xFFFFFFFF, so that i + 1 wraps to 0.
RECURSIVE new_thread(_, _, _, _)
new_thread(st, t, i, gen_id) ==
  IF ~Ok(st) THEN st
  ELSE IF t.ops.k # "op" THEN [st EXCEPT !.err = "UB"]
  ELSE
    LET op == st.prog[t.ops.i + 1]
        s1 == [st EXCEPT !.prog[t.ops.i + 1].gen = gen_id]
    IN IF op.gen = gen_id THEN st
       ELSE IF op.opt = "SPLIT"
       THEN new_thread(new_thread(s1, Thread(op.lb, t.m_loc), i, gen_id),
                       Thread(op.rb, t.m_loc), i, gen_id)
       ELSE IF op.opt = "SAVE"
       THEN IF U32Val(op.data) >= Len(t.m_loc) THEN [s1 EXCEPT !.err = "UB"]
            ELSE new_thread(s1,
                            Thread(op.lb, [t.m_loc EXCEPT ![U32Val(op.data) + 1] = i + 1]),
                            i, gen_id)
       ELSE [s1 EXCEPT !.pool = Append(@, t)]

\* The body of the loop over cur for one thread cur[j].  ms is the state of
\* the call: prog, cur, nxt, matches, gen_id, match, err.
match_thread(ms, classes, str, i, j) ==
  LET t == ms.cur[j]
      op == ms.prog[t.ops.i + 1]
      spawn == With(new_thread([prog |-> ms.prog, pool |-> ms.nxt, err |-> "ok"],
                               Thread(op.lb, t.m_loc), i, ms.gen_id),
                    LAMBDA r : [ms EXCEPT !.prog = r.prog, !.nxt = r.pool, !.err = r.err])
  IN CASE op.opt = "CHAR" ->
            With(get_utf8_n_inc(str, i), LAMBDA u :
              IF ~Ok(u) THEN [ms EXCEPT !.err = u.err]
              ELSE IF u.cp # op.data THEN ms
              ELSE spawn)
       [] op.opt = "CLASS" ->
            With(get_utf8_n_inc(str, i), LAMBDA u :
              IF ~Ok(u) THEN [ms EXCEPT !.err = u.err]
              ELSE IF U32Val(op.data) >= Len(classes) THEN [ms EXCEPT !.err = "UB"]
              ELSE IF test_rev4byte(classes[U32Val(op.data) + 1], u.cp) THEN spawn
              ELSE ms)
       [] op.opt = "ANY" -> spawn
       [] op.opt = "MATCH" ->
            [ms EXCEPT !.match = TRUE, !.matches = Append(@, t.m_loc)]
       [] OTHER -> ms

RECURSIVE match_threads(_, _, _, _, _)
match_threads(ms, classes, str, i, j) ==
  IF ~Ok(ms) \/ j > Len(ms.cur) THEN ms
  ELSE match_threads(match_thread(ms, classes, str, i, j), classes, str, i, j + 1)

\* the loop after the input is exhausted: record the MATCH threads of cur
RECURSIVE match_drain(_, _)
match_drain(ms, j) ==
  IF j > Len(ms.cur) THEN ms
  ELSE IF ms.prog[ms.cur[j].ops.i + 1].opt = "MATCH"
       THEN match_drain([ms EXCEPT !.match = TRUE,
                                   !.matches = Append(@, ms.cur[j].m_loc)], j + 1)
       ELSE match_drain(ms, j + 1)

\* the loop over the input, from byte index i
RECURSIVE match_from(_, _, _, _, _, _, _)
match_from(ms, classes, save_points, str, i, Unanchored, Match_one) ==
  IF ~Ok(ms) THEN ms
  ELSE IF i >= Len(str) THEN match_drain(ms, 1)
  ELSE
    With(IF Unanchored
         THEN new_thread([prog |-> ms.prog, pool |-> ms.cur, err |-> "ok"],
                         Thread(OpPtr(0), ZeroLoc(save_points)), i - 1, i)
         ELSE [prog |-> ms.prog, pool |-> ms.cur, err |-> "ok"],
         LAMBDA sp :
           With(match_threads([ms EXCEPT !.gen_id = i, !.prog = sp.prog, !.cur = sp.pool,
                                         !.err = sp.err],
                              classes, str, i, 1),
                LAMBDA m2 :
                  IF ~Ok(m2) THEN m2
                  ELSE IF Match_one /\ m2.match THEN [m2 EXCEPT !.cur = m2.nxt, !.nxt = <<>>]
                  ELSE match_from([m2 EXCEPT !.cur = m2.nxt, !.nxt = <<>>], classes,
                                  save_points, str, i + utf_bytes(Rd(str, i)),
                                  Unanchored, Match_one)))

\* clear_match_info without matches.clear()
clear_match_info_keep_matches(vm) == [vm EXCEPT !.cur = <<>>, !.nxt = <<>>, !.gen_id = 0]

\* clear_match_info
clear_match_info(vm) ==
  [vm EXCEPT !.cur = <<>>, !.nxt = <<>>, !.matches = <<>>, !.gen_id = 0]

\* match<Unanchored, Match_one>(str) on the engine vm: clear_match_info, the
\* first thread, the loop.  The result is the engine the call leaves, its
\* return value ret and err.
match(vm, str, Unanchored, Match_one) ==
  With(clear_match_info(vm), LAMBDA c :
    IF Len(c.prog) = 0 THEN [vm |-> c, ret |-> FALSE, err |-> "UB"]
    ELSE
      With(new_thread([prog |-> c.prog, pool |-> c.cur, err |-> "ok"],
                      Thread(OpPtr(0), ZeroLoc(c.save_points)), -1, c.gen_id),
           LAMBDA first :
             With(match_from([prog |-> first.prog, cur |-> first.pool, nxt |-> c.nxt,
                              matches |-> c.matches, gen_id |-> c.gen_id,
                              match |-> FALSE, err |-> first.err],
                             c.classes, c.save_points, str, 0, Unanchored, Match_one),
                  LAMBDA r :
                    [vm |-> [c EXCEPT !.prog = r.prog, !.cur = r.cur, !.nxt = r.nxt,
                                      !.matches = r.matches, !.gen_id = r.gen_id],
                     ret |-> r.match, err |-> r.err])))

\* ------------------------------------------------------------------------
\* hybrid_set: the dense list of a sparse set and a bit vector
\* ------------------------------------------------------------------------
\* dense: the members in insertion order; sparse: the index vector, entry i
\* at i + 1, of length range; bits: the bits set in the bit vector of nbytes
\* bytes.
EmptySet == [dense |-> <<>>, sparse |-> <<>>, range |-> 0, bits |-> {}, nbytes |-> 0]

\* bitvector::resize(size): 8 * ((size + 63) / 64) bytes
bitvector_bytes(size) == 8 * ((size + 63) \div 64)

\* hybrid_set::set_range: sparse_set::set_range throws unless size is
\* greater than the cardinality, then the bit vector is resized
set_range(hs, size) ==
  IF size > Len(hs.dense)
  THEN [hs |-> [hs EXCEPT !.range = size,
                          !.sparse = [k \in 1..size |-> IF k <= Len(@) THEN @[k] ELSE 0],
                          !.nbytes = bitvector_bytes(size),
                          !.bits = {b \in @ : b < 8 * bitvector_bytes(size)}],
        err |-> "ok"]
  ELSE [hs |-> hs, err |-> "InvalidArgument"]

\* hybrid_set::test(i) reads byte i >> 3 of the bit vector
set_test_ok(hs, i) == i >= 0 /\ i < 8 * hs.nbytes
set_test(hs, i) == i \in hs.bits

\* hybrid_set::insert(i) writes sparse[i] and byte i >> 3
set_insert_ok(hs, i) == i >= 0 /\ i < hs.range /\ i < 8 * hs.nbytes
set_insert(hs, i) ==
  [hs EXCEPT !.sparse = IF i < Len(@) THEN [@ EXCEPT ![i + 1] = Len(hs.dense)] ELSE @,
             !.dense = Append(@, i), !.bits = @ \cup {i}]

\* hybrid_set::clear
set_clear(hs) == [hs EXCEPT !.dense = <<>>, !.bits = {}]

\* comp(lhs, rhs) of two bit vectors, the order of the cache's std::map: a
\* shorter vector is less; of two vectors of one length, lhs is less when
\* some 64-bit limb of it is less than the same limb of rhs.
Max(S) == CHOOSE x \in S : \A y \in S : y <= x
limb(bits, k) == {b \in bits : b \div 64 = k}
limb_less(A, B) ==
  LET d == (A \ B) \cup (B \ A) IN d # {} /\ Max(d) \in B
comp(lhs, rhs) ==
  IF lhs.nbytes < rhs.nbytes THEN TRUE
  ELSE IF lhs.nbytes > rhs.nbytes THEN FALSE
  ELSE \E k \in 0..((lhs.nbytes \div 8) - 1) : limb_less(limb(lhs.bits, k), limb(rhs.bits, k))
\* two keys the map takes for the same key
hybrid_set_equiv(a, b) == ~comp(a, b) /\ ~comp(b, a)

\* ------------------------------------------------------------------------
\* utf8_ptrmap<cache_element>: next_state
\* ------------------------------------------------------------------------
\* The map is a function from <<tier, index>> to the index of a ring_buffer
\* element; a key outside its domain is a null pointer.
utf_4byte_h(a, b, c, d) == (d % 64) + (c % 64) * 64 + (b % 64) * 4096 + (a % 8) * 262144
EmptyPtrmap == [k \in {} |-> 0]

\* add_element(a, ptr) .. add_element(a, b, c, d, ptr) behind add_rev4byte_el
add_rev4byte_key(w) ==
  LET n == utf_bytes(w[1])
  IN CASE n = 1 -> <<1, w[1]>>
       [] n = 2 -> <<2, utf_2byte_h(w[1], w[2])>>
       [] n = 3 -> <<3, utf_3byte_h(w[1], w[2], w[3])>>
       [] OTHER -> <<4, utf_4byte_h(w[1], w[2], w[3], w[4])>>
add_rev4byte_el(pm, w, ptr) == (add_rev4byte_key(w) :> ptr) @@ pm
add_element(pm, a, ptr) == (<<1, a>> :> ptr) @@ pm

\* set_rev4byte(bytes), the lookup step uses: the case for two bytes
\* discards its result and falls into the case for three bytes, and the case
\* for four bytes passes the whole word where the fourth byte belongs.
set_rev4byte_key(w) ==
  LET n == utf_bytes(w[1])
  IN CASE n = 1 -> <<1, w[1]>>
       [] n = 4 -> <<4, utf_4byte_h(w[1], w[2], w[3], w[1])>>
       [] OTHER -> <<3, utf_3byte_h(w[1], w[2], w[3])>>
ptrmap_get(pm, key) == IF key \in DOMAIN pm THEN [k |-> "cel", i |-> pm[key]] ELSE [k |-> "null", i |-> 0]

\* ------------------------------------------------------------------------
\* cache_element
\* ------------------------------------------------------------------------
EmptyCel == [filter |-> EmptyBitmap, next_state |-> EmptyPtrmap, ops |-> EmptySet]

\* cache_element::step: the successor recorded for the code point at s[i]
step(cel, s, i) ==
  LET u == get_utf8_n_inc(s, i)
  IN IF ~Ok(u) THEN [nxt |-> [k |-> "null", i |-> 0], err |-> u.err]
     ELSE IF test_rev4byte(cel.filter, u.cp)
          THEN [nxt |-> ptrmap_get(cel.next_state, set_rev4byte_key(u.cp)), err |-> "ok"]
          ELSE [nxt |-> ptrmap_get(cel.next_state, <<1, 255>>), err |-> "ok"]

\* resolve_split, both overloads: with_filter says whether the filter is
\* maintained.  rs = [list, filter, err]; resolve_list is the stack of op
\* pointers, top last.  The address of an op is turned into an index by
\* subtracting vec_start, which is defined only for a pointer into oplist.
RECURSIVE resolve_loop(_, _, _, _)
resolve_loop(rs, resolve_list, oplist, with_filter) ==
  IF ~Ok(rs) \/ Len(resolve_list) = 0 THEN rs
  ELSE
    LET p == Last(resolve_list)
        op == oplist[p.i + 1]
    IN IF p.k # "op" \/ ~set_test_ok(rs.list, p.i) THEN [rs EXCEPT !.err = "UB"]
       ELSE IF set_test(rs.list, p.i)
       THEN resolve_loop(rs, Front(resolve_list), oplist, with_filter)
       ELSE IF ~set_insert_ok(rs.list, p.i) \/ p.i >= Len(oplist)
       THEN [rs EXCEPT !.err = "UB"]
       ELSE IF op.opt = "SPLIT"
       THEN resolve_loop([rs EXCEPT !.list = set_insert(@, p.i)],
                         resolve_list \o <<op.lb, op.rb>>, oplist, with_filter)
       ELSE resolve_loop([rs EXCEPT !.list = set_insert(@, p.i),
                                    !.filter = IF with_filter /\ op.opt = "CHAR"
                                               THEN insert_rev4byte(@, op.data) ELSE @],
                         Front(resolve_list), oplist, with_filter)

resolve_split(list, nxt, oplist, filter, with_filter) ==
  resolve_loop([list |-> list, filter |-> filter, err |-> "ok"], <<nxt>>, oplist, with_filter)

\* construct_next: the state reached from cel on the code point utf8
RECURSIVE construct_from(_, _, _, _, _, _)
construct_from(cel, new_ce, j, utf8, oplist, classes) ==
  IF j >= Len(cel.ops.dense) THEN [cel |-> new_ce, err |-> "ok"]
  ELSE IF cel.ops.dense[j + 1] >= Len(oplist) THEN [cel |-> new_ce, err |-> "UB"]
  ELSE
    LET op == oplist[cel.ops.dense[j + 1] + 1]
        taken == CASE op.opt = "CHAR" -> utf8 = op.data
                   [] op.opt = "CLASS" -> test_rev4byte(classes[U32Val(op.data) + 1], utf8)
                   [] op.opt = "ANY" -> TRUE
                   [] OTHER -> FALSE
    IN IF op.opt = "CLASS" /\ U32Val(op.data) >= Len(classes)
       THEN [cel |-> new_ce, err |-> "UB"]
       ELSE IF ~taken THEN construct_from(cel, new_ce, j + 1, utf8, oplist, classes)
       ELSE With(resolve_split(new_ce.ops, op.lb, oplist, new_ce.filter, TRUE), LAMBDA r :
              IF ~Ok(r) THEN [cel |-> new_ce, err |-> r.err]
              ELSE construct_from(cel, [new_ce EXCEPT !.ops = r.list, !.filter = r.filter],
                                  j + 1, utf8, oplist, classes))

construct_next(cel, utf8, oplist, classes) ==
  With(set_range(EmptySet, Len(oplist)), LAMBDA sr :
    IF ~Ok(sr) THEN [cel |-> EmptyCel, err |-> sr.err]
    ELSE construct_from(cel, [EmptyCel EXCEPT !.ops = sr.hs], 0, utf8, oplist, classes))

\* ------------------------------------------------------------------------
\* cache: the ring buffer of DFA states, the map from op sets to ring
\* positions, and the state strt that run advances
\* ------------------------------------------------------------------------
overflow_lim == 5
rebuild_lim == 5
\* the argument of mem.resize in the constructor
CacheRequest == 32

\* a pointer to ring_buffer[i], or no element
CelPtr(i) == [k |-> "cel", i |-> i]

\* 1 << (32 - countl_zero(n + 1) - 1): the largest power of two that is at
\* most n + 1
RECURSIVE FloorPow2(_)
FloorPow2(n) == IF n < 2 THEN 1 ELSE 2 * FloorPow2(n \div 2)

\* a default-constructed cache before resize gives start, end and size_less1
\* their first values; the two limits are public fields with default member
\* initialisers, which the caller may assign
EmptyCache ==
  [start |-> 0, end |-> 0, size_less1 |-> 0, overflow_c |-> 0, rebuild_c |-> 0,
   overflow_lim |-> overflow_lim, rebuild_lim |-> rebuild_lim,
   strt |-> EmptyCel, ring_buffer |-> <<>>, tree |-> {}]

\* cache::resize: ring_buffer is kept 1-based here, element i at i + 1
cache_resize(mem, n) ==
  LET new_size == FloorPow2(n + 1)
  IN [mem EXCEPT !.ring_buffer = [k \in 1..new_size |->
                                    IF k <= Len(mem.ring_buffer) THEN mem.ring_buffer[k]
                                    ELSE EmptyCel],
                 !.size_less1 = new_size - 1,
                 !.start = 0, !.end = 0, !.tree = {}]

\* x & size_less1
Mask(mem, x) == x % (mem.size_less1 + 1)
Ring(mem, i) == mem.ring_buffer[i + 1]

\* the key a std::map entry keeps of a hybrid_set: what comp reads
TreeKey(hs) == [bits |-> hs.bits, nbytes |-> hs.nbytes]
\* cache::test: tree.count(rep)
cache_test(mem, rep) == \E e \in mem.tree : hybrid_set_equiv(e.key, TreeKey(rep))
\* cache::operator()(rep): the address of (*this)[tree.find(rep)->second]
cache_find(mem, rep) ==
  Mask(mem, (CHOOSE e \in mem.tree : hybrid_set_equiv(e.key, TreeKey(rep))).val + mem.start)

\* cache::pop: erase the key of the oldest element and advance start
cache_pop(mem) ==
  LET oldest == Ring(mem, Mask(mem, mem.start)).ops
  IN IF ~cache_test(mem, oldest) THEN [mem |-> mem, err |-> "UB"]
     ELSE [mem |-> [mem EXCEPT !.tree = {e \in @ : ~hybrid_set_equiv(e.key, TreeKey(oldest))},
                               !.start = Mask(mem, mem.start + 1)],
           err |-> "ok"]

\* cache::reset
cache_reset(mem) == [mem EXCEPT !.start = 0, !.end = 0, !.tree = {}]

\* cache::push(cache_element&&)
cache_push(mem, c) ==
  LET p == cache_pop(mem)
      counted == [p.mem EXCEPT !.overflow_c = @ + 1]
      m1 == IF mem.end + 1 # mem.start THEN mem
            ELSE IF counted.overflow_c = mem.overflow_lim
                 THEN [cache_reset(counted) EXCEPT !.rebuild_c = @ + 1]
                 ELSE counted
      m2 == [m1 EXCEPT !.tree = IF cache_test(m1, c.ops) THEN @
                                ELSE @ \cup {[key |-> TreeKey(c.ops), val |-> m1.end]},
                       !.ring_buffer[m1.end + 1] = c,
                       !.end = Mask(m1, m1.end + 1)]
  IN IF mem.end + 1 = mem.start /\ ~Ok(p) THEN [mem |-> mem, err |-> "UB"]
     ELSE [mem |-> m2, err |-> "ok"]
\* The first half of one pass of the loop of run: strt moves to the
\* successor for the code point at s[idx].  A successor step finds is copied
\* into strt.  Otherwise the successor is built, looked up in the map or
\* pushed, recorded in next_state of strt, and copied into strt, which is
\* thereby overwritten together with the record just made.
run_link(mem, utf8, pos) ==
  [[mem EXCEPT !.strt.next_state =
      IF bitmap_test(mem.strt.filter, 1, utf8[1], 0, 0, 0)
      THEN add_rev4byte_el(@, utf8, pos)
      ELSE add_element(@, 255, pos)]
   EXCEPT !.strt = Ring(mem, pos)]

run_advance(mem, s, idx, oplist, classes) ==
  With(step(mem.strt, s, idx), LAMBDA st :
    IF ~Ok(st) THEN [mem |-> mem, err |-> st.err]
    ELSE IF st.nxt.k = "cel"
    THEN [mem |-> [mem EXCEPT !.strt = Ring(mem, st.nxt.i)], err |-> "ok"]
    ELSE IF mem.rebuild_lim = mem.rebuild_c THEN [mem |-> mem, err |-> "UB"]
    ELSE
      With(construct_next(mem.strt, get_utf8_n_inc(s, idx).cp, oplist, classes), LAMBDA tmp :
        IF ~Ok(tmp) THEN [mem |-> mem, err |-> tmp.err]
        ELSE IF cache_test(mem, tmp.cel.ops)
        THEN [mem |-> run_link(mem, get_utf8_n_inc(s, idx).cp, cache_find(mem, tmp.cel.ops)),
              err |-> "ok"]
        ELSE With(cache_push(mem, tmp.cel), LAMBDA pushed :
               IF ~Ok(pushed) THEN [mem |-> mem, err |-> pushed.err]
               ELSE [mem |-> run_link(pushed.mem, get_utf8_n_inc(s, idx).cp,
                                      Mask(pushed.mem, pushed.mem.end + pushed.mem.size_less1)),
                     err |-> "ok"])))

\* cache::run<Unanchored>, from byte idx.  current_cel is a reference to
\* strt, so every assignment to it is an assignment to mem.strt.  The result
\* is the cache, the value left in i, last, the return value and err.
RECURSIVE run_from(_, _, _, _, _, _, _)
run_from(mem, s, idx, oplist, st_op, classes, Unanchored) ==
  IF idx >= Len(s) THEN [mem |-> mem, i |-> idx, last |-> -1, ret |-> FALSE, err |-> "ok"]
  ELSE With(run_advance(mem, s, idx, oplist, classes), LAMBDA a :
    IF ~Ok(a) THEN [mem |-> a.mem, i |-> idx, last |-> 0, ret |-> FALSE, err |-> a.err]
    ELSE IF ~set_test_ok(a.mem.strt.ops, Len(oplist) - 1)
    THEN [mem |-> a.mem, i |-> idx, last |-> 0, ret |-> FALSE, err |-> "UB"]
    ELSE IF set_test(a.mem.strt.ops, Len(oplist) - 1)
    THEN [mem |-> a.mem, i |-> idx + utf_bytes(Rd(s, idx)), last |-> 0, ret |-> TRUE,
          err |-> "ok"]
    ELSE IF ~Unanchored
    THEN run_from(a.mem, s, idx + utf_bytes(Rd(s, idx)), oplist, st_op, classes, Unanchored)
    ELSE With(resolve_split(a.mem.strt.ops, OpPtr(st_op), oplist, a.mem.strt.filter, TRUE),
              LAMBDA rs :
                IF ~Ok(rs)
                THEN [mem |-> a.mem, i |-> idx, last |-> 0, ret |-> FALSE, err |-> rs.err]
                ELSE run_from([a.mem EXCEPT !.strt.ops = rs.list, !.strt.filter = rs.filter],
                              s, idx + utf_bytes(Rd(s, idx)), oplist, st_op, classes,
                              Unanchored)))

run(mem, s, i, oplist, st_op, classes, Unanchored) ==
  IF ~set_test_ok(mem.strt.ops, Len(oplist) - 1)
  THEN [mem |-> mem, i |-> i, last |-> 0, ret |-> FALSE, err |-> "UB"]
  ELSE IF set_test(mem.strt.ops, Len(oplist) - 1)
  THEN [mem |-> mem, i |-> i, last |-> 0, ret |-> TRUE, err |-> "ok"]
  ELSE run_from(mem, s, i, oplist, st_op, classes, Unanchored)

\* cache::init_s: strt becomes the closure of the start op
init_s(mem, oplist, st_op, classes) ==
  With(set_range(EmptySet, Len(oplist)), LAMBDA sr :
    IF ~Ok(sr) THEN [mem |-> [mem EXCEPT !.strt = EmptyCel], err |-> sr.err]
    ELSE With(resolve_split(sr.hs, OpPtr(st_op), oplist, EmptyBitmap, TRUE), LAMBDA rs :
           IF ~Ok(rs) THEN [mem |-> [mem EXCEPT !.strt = EmptyCel], err |-> rs.err]
           ELSE [mem |-> [mem EXCEPT !.strt = [EmptyCel EXCEPT !.ops = rs.list,
                                                               !.filter = rs.filter]],
                 err |-> "ok"]))

\* ------------------------------------------------------------------------
\* The engine nfa_vm: its fields as one record
\* ------------------------------------------------------------------------
\* the member initialisers of the constructor
NewVm ==
  [prog |-> <<>>, prog_ruin |-> <<>>, prog_ruin_start |-> 0, classes |-> <<>>,
   save_points |-> 0, gen_id |-> 0, cur |-> <<>>, nxt |-> <<>>, matches |-> <<>>,
   mem |-> EmptyCache]

\* clear_compile_info without the reset of save_points
clear_compile_info_keep_save_points(vm) ==
  [vm EXCEPT !.prog = <<>>, !.prog_ruin = <<>>, !.classes = <<>>, !.prog_ruin_start = 0]

\* clear_compile_info
clear_compile_info(vm) ==
  [vm EXCEPT !.prog = <<>>, !.prog_ruin = <<>>, !.classes = <<>>,
             !.save_points = 0, !.prog_ruin_start = 0]

\* the four compile passes, run on the engine vm
compile(vm, regex) ==
  With(compile_pipeline(regex, vm.save_points), LAMBDA c :
    [vm |-> [vm EXCEPT !.prog = c.prog, !.prog_ruin = c.prog_ruin,
                       !.prog_ruin_start = c.prog_ruin_start,
                       !.classes = c.classes, !.save_points = c.save_points],
     err |-> c.err])

\* nfa_vm(regex): compile, then size the cache and seed it
nfa_vm(regex) ==
  With(compile(NewVm, regex), LAMBDA c :
    IF ~Ok(c) THEN c
    ELSE With(init_s(cache_resize(c.vm.mem, CacheRequest),
                     c.vm.prog_ruin, c.vm.prog_ruin_start, c.vm.classes),
              LAMBDA seeded : [vm |-> [c.vm EXCEPT !.mem = seeded.mem], err |-> seeded.err]))

\* recompile(regex)
recompile(vm, regex) == compile(clear_compile_info(vm), regex)

\* test<Unanchored>(str).  cache stays true, so the first pass of the loop
\* over str returns unless run gives up with last set, which it does only
\* once rebuild_c has reached rebuild_lim; that exit of run computes last
\* from the addresses of two unrelated objects.  On the empty text the loop
\* is skipped and current, still without a bit vector, is tested.
test(vm, str, Unanchored) ==
  LET m0 == [vm.mem EXCEPT !.rebuild_c = 0, !.overflow_c = 0]
      current == EmptySet
  IN IF Len(str) = 0
     THEN IF set_test_ok(current, Len(vm.prog_ruin) - 1)
          THEN [vm |-> [vm EXCEPT !.mem = m0],
                ret |-> set_test(current, Len(vm.prog_ruin) - 1), err |-> "ok"]
          ELSE [vm |-> [vm EXCEPT !.mem = m0], ret |-> FALSE, err |-> "UB"]
     ELSE With(run(m0, str, 0, vm.prog_ruin, vm.prog_ruin_start, vm.classes, Unanchored),
               LAMBDA r : [vm |-> [vm EXCEPT !.mem = r.mem], ret |-> r.ret, err |-> r.err])

\* ------------------------------------------------------------------------
\* Inputs: patterns of the grammar and texts
\* ------------------------------------------------------------------------
Letters == {CH_a, CH_b}
\* the letters of the patterns of the specification with several calls
RunLetters == {CH_a}
Quantifiers == {STAR, PLUS, QMARK}

\* Patterns over the letters L by exact length: an atom is a letter or a
\* group, a quantified atom carries any number of quantifiers, a
\* concatenation is a sequence of quantified atoms, an alternation is
\* concatenations separated by '|'.
RECURSIVE PatAtom(_, _), PatQuant(_, _), PatCat(_, _), PatAlt(_, _)
PatAtom(L, n) ==
  (IF n = 1 THEN {<<c>> : c \in L} ELSE {})
  \cup (IF n >= 3 THEN {<<LPAREN>> \o r \o <<RPAREN>> : r \in PatAlt(L, n - 2)} ELSE {})
PatQuant(L, n) ==
  PatAtom(L, n)
  \cup (IF n >= 2 THEN {q \o <<x>> : q \in PatQuant(L, n - 1), x \in Quantifiers} ELSE {})
PatCat(L, n) ==
  PatQuant(L, n)
  \cup UNION {{c \o q : c \in PatCat(L, k), q \in PatQuant(L, n - k)} : k \in 1..(n - 1)}
PatAlt(L, n) ==
  PatCat(L, n)
  \cup UNION {{r \o <<BAR>> \o c : r \in PatAlt(L, k), c \in PatCat(L, n - 1 - k)} :
              k \in 1..(n - 2)}

PatternsUpTo(L, n) == UNION {PatAlt(L, k) : k \in 1..n}
TextsUpTo(n) == UNION {[1..k -> Letters] : k \in 0..n}

CompilePatterns == PatternsUpTo(Letters, MaxPatLen)
FreshPatterns == PatternsUpTo(Letters, MaxFreshPatLen)
FreshTexts == TextsUpTo(MaxFreshTextLen)
RunPatterns == PatternsUpTo(RunLetters, MaxRunPatLen)
RunTexts == TextsUpTo(MaxTextLen)

\* Code points of 1, 2, 3 and 4 bytes: a, U+00E9, U+20AC, U+1F60A (the one
\* of the test program)
CodePoints == {<<97>>, <<195, 169>>, <<226, 130, 172>>, <<240, 159, 152, 138>>}
\* the strings of n code points
RECURSIVE Utf8Words(_)
Utf8Words(n) ==
  IF n = 0 THEN {<<>>} ELSE {w \o c : w \in Utf8Words(n - 1), c \in CodePoints}
\* a code point cut short, and a code point with one of its continuation
\* bytes replaced by a letter
Truncated(c) == {SubSeq(c, 1, k) : k \in 1..(Len(c) - 1)}
Corrupted(c) == {[c EXCEPT ![k] = CH_a] : k \in 2..Len(c)}
BrokenStrings ==
  {p \o x \o q : p \in {<<>>, <<CH_a>>}, q \in {<<>>, <<CH_a>>},
                 x \in UNION {Truncated(c) \cup Corrupted(c) : c \in CodePoints}}
Utf8ValidTexts == UNION {Utf8Words(n) : n \in 0..MaxUtf8Len}
Utf8Texts == Utf8ValidTexts \cup BrokenStrings
\* patterns of code points: words, a group, a group beside a code point,
\* an alternation, and the broken strings
Utf8Patterns ==
  UNION {Utf8Words(n) : n \in 1..MaxUtf8Len}
  \cup {<<LPAREN>> \o x \o <<RPAREN>> : x \in CodePoints}
  \cup {<<LPAREN>> \o x \o <<RPAREN>> \o y : x \in CodePoints, y \in CodePoints}
  \cup {x \o <<LPAREN>> \o y \o <<RPAREN>> : x \in CodePoints, y \in CodePoints}
  \cup {x \o <<BAR>> \o y : x \in CodePoints, y \in CodePoints}
  \cup BrokenStrings

\* ------------------------------------------------------------------------
\* The state machine: one engine and the calls made on it
\* ------------------------------------------------------------------------
\* vm: the engine.  pattern: the regex it was last given.  phase: "start"
\* before the constructor has run, "ready" while the engine can be called,
\* "thrown" after a call left by an exception, "crashed" after a call ran
\* into undefined behaviour, "hung" after a call entered an endless loop;
\* the last three are final.  hist: the calls made so far, the constructor
\* first, each with its arguments and what it returned.
VARIABLES vm, pattern, phase, hist
vars == <<vm, pattern, phase, hist>>

\* the record of a call: str is the text of a match or test and the regex of
\* a construction or recompile; matches is match_indices() after a match
Call(op, str, unanchored, ret, err, matches) ==
  [op |-> op, str |-> str, unanchored |-> unanchored, ret |-> ret, err |-> err,
   matches |-> matches]
NoCall == Call("none", <<>>, FALSE, FALSE, "ok", <<>>)

\* the calls made after the construction, the last call, the one before it
calls == Len(hist) - 1
last == IF Len(hist) >= 1 THEN hist[Len(hist)] ELSE NoCall
prev == IF Len(hist) >= 2 THEN hist[Len(hist) - 1] ELSE NoCall
recompiles == Cardinality({k \in 1..Len(hist) : hist[k].op = "recompile"})

PhaseAfter(err) ==
  CASE err = "ok" -> "ready"
    [] err = "UB" -> "crashed"
    [] err = "Hang" -> "hung"
    [] OTHER -> "thrown"

InitWith(patterns) ==
  /\ vm = NewVm
  /\ pattern \in patterns
  /\ phase = "start"
  /\ hist = <<>>

Init == InitWith(RunPatterns)
InitFresh == InitWith(FreshPatterns)
InitCompile == InitWith(CompilePatterns)
InitUtf8 == InitWith(Utf8Patterns)

\* what a call leaves: the engine, as long as the process lives, and the
\* record of the call
Leave(r, op, str, unanchored) ==
  /\ vm' = IF r.err \in {"UB", "Hang"} THEN NewVm ELSE r.vm
  /\ phase' = PhaseAfter(r.err)
  /\ hist' = Append(hist, Call(op, str, unanchored,
                               r.err = "ok" /\ op \in {"match", "test"} /\ r.ret, r.err,
                               IF r.err = "ok" /\ op = "match" THEN r.vm.matches ELSE <<>>))

\* nfa_vm e(pattern)
Construct ==
  /\ phase = "start"
  /\ Leave(nfa_vm(pattern), "construct", pattern, FALSE)
  /\ UNCHANGED pattern

\* e.match<Unanchored, true>(str)
DoMatch(str, Unanchored) ==
  /\ phase = "ready"
  /\ Leave(match(vm, str, Unanchored, TRUE), "match", str, Unanchored)
  /\ UNCHANGED pattern

\* e.test<Unanchored>(str)
DoTest(str, Unanchored) ==
  /\ phase = "ready"
  /\ Leave(test(vm, str, Unanchored), "test", str, Unanchored)
  /\ UNCHANGED pattern

\* e.recompile(regex)
DoRecompile(regex) ==
  /\ phase = "ready"
  /\ Leave(recompile(vm, regex), "recompile", regex, FALSE)
  /\ pattern' = regex

Match == calls < MaxCalls /\ \E str \in RunTexts, Unanchored \in BOOLEAN : DoMatch(str, Unanchored)
Test == calls < MaxCalls /\ \E str \in RunTexts, Unanchored \in BOOLEAN : DoTest(str, Unanchored)
Recompile ==
  calls < MaxCalls /\ recompiles < MaxRecompiles /\ \E regex \in RunPatterns : DoRecompile(regex)

Next == Construct \/ Match \/ Test \/ Recompile
Spec == Init /\ [][Next]_vars

\* one call on a new engine, over longer patterns and texts
FreshMatch == calls = 0 /\ \E str \in FreshTexts, Unanchored \in BOOLEAN : DoMatch(str, Unanchored)
FreshTest == calls = 0 /\ \E str \in FreshTexts, Unanchored \in BOOLEAN : DoTest(str, Unanchored)
NextFresh == Construct \/ FreshMatch \/ FreshTest
SpecFresh == InitFresh /\ [][NextFresh]_vars

\* one match on a new engine, over patterns and texts of code points of 1
\* to 4 bytes, well formed and broken
Utf8Match ==
  calls = 0 /\ \E str \in Utf8Texts, Unanchored \in BOOLEAN : DoMatch(str, Unanchored)
NextUtf8 == Construct \/ Utf8Match
SpecUtf8 == InitUtf8 /\ [][NextUtf8]_vars

\* the two callers of the compile passes over the longest patterns: the
\* constructor, and one recompile on the engine it leaves
CompileAgain ==
  /\ calls = 0
  /\ \E regex \in CompilePatterns :
       Len(pattern) + Len(regex) <= MaxTwoPatLen /\ DoRecompile(regex)
NextCompile == Construct \/ CompileAgain
SpecCompile == InitCompile /\ [][NextCompile]_vars

\* ------------------------------------------------------------------------
\* Properties of the compiled program
\* ------------------------------------------------------------------------
Range(s) == {s[k] : k \in 1..Len(s)}

\* the link l is the address of an op of prog
LinkInside(prog, l) == l.k = "op" /\ l.i < Len(prog)

\* the links an op is followed through: lb of CHAR, ANY, CLASS and SAVE,
\* lb and rb of SPLIT
LinksPatched(prog) ==
  \A k \in 1..Len(prog) :
    CASE prog[k].opt \in {"CHAR", "ANY", "CLASS", "SAVE"} -> LinkInside(prog, prog[k].lb)
      [] prog[k].opt = "SPLIT" -> LinkInside(prog, prog[k].lb) /\ LinkInside(prog, prog[k].rb)
      [] OTHER -> TRUE

\* C7: after every successful compile (by the constructor or by recompile)
\* every CHAR, ANY, CLASS and SAVE op of prog has an lb that points to an op
\* of prog, and every SPLIT has both lb and rb pointing to ops of prog.
C7_LinksPatched == phase = "ready" => LinksPatched(vm.prog)

\* a compile of a chained alternation that succeeded
C7_ChainedAlternation ==
  /\ phase = "ready"
  /\ Cardinality({k \in 1..Len(pattern) : pattern[k] = BAR}) >= 2

\* C8: after every successful compile prog[0] is the SAVE of slot 0, the
\* last op of prog is MATCH and no other op is, and the op before it is the
\* SAVE of slot 1 whose lb is that MATCH.
C8_ProgShape ==
  phase = "ready" =>
    /\ Len(vm.prog) >= 3
    /\ vm.prog[1].opt = "SAVE" /\ U32Val(vm.prog[1].data) = 0
    /\ \A k \in 1..Len(vm.prog) : vm.prog[k].opt = "MATCH" <=> k = Len(vm.prog)
    /\ vm.prog[Len(vm.prog) - 1].opt = "SAVE"
    /\ U32Val(vm.prog[Len(vm.prog) - 1].data) = 1
    /\ vm.prog[Len(vm.prog) - 1].lb = OpPtr(Len(vm.prog) - 1)

\* a recompile that succeeded on an engine whose earlier pattern had a
\* group, to another pattern with a group and a SPLIT
C8_Recompiled ==
  /\ phase = "ready"
  /\ last.op = "recompile"
  /\ LPAREN \in Range(prev.str)
  /\ LPAREN \in Range(pattern) /\ pattern # prev.str
  /\ \E k \in 1..Len(vm.prog) : vm.prog[k].opt = "SPLIT"

\* The parentheses of a pattern in the order they are written, each with the
\* number of its group: groups are numbered from 1 by their '(' and a ')'
\* closes the group opened last and not yet closed.  open is the stack of
\* the groups that are open, n the number of groups opened so far.
RECURSIVE GroupsFrom(_, _, _, _)
GroupsFrom(s, k, open, n) ==
  IF k > Len(s) THEN <<>>
  ELSE IF s[k] = LPAREN
       THEN <<[open |-> TRUE, group |-> n + 1]>> \o GroupsFrom(s, k + 1, Append(open, n + 1), n + 1)
  ELSE IF s[k] = RPAREN /\ Len(open) > 0
       THEN <<[open |-> FALSE, group |-> Last(open)]>> \o GroupsFrom(s, k + 1, Front(open), n)
  ELSE GroupsFrom(s, k + 1, open, n)
Groups(s) == GroupsFrom(s, 1, <<>>, 0)

\* the bytes of s that are parentheses, in order
Parens(s) == SelectSeq(s, LAMBDA c : c \in {LPAREN, RPAREN})

\* the slots of the SAVE ops the token loop emitted, in the order of
\* emission: all SAVE ops but prog[0] and the SAVE of slot 1 before MATCH
GroupSaves(prog) ==
  SelectSeq([k \in 1..(Len(prog) - 3) |-> prog[k + 1]], LAMBDA o : o.opt = "SAVE")

\* The token loop emits one SAVE per parenthesis, in the order of the
\* parentheses of the pattern: the shunting yard copies every parenthesis
\* to its output when it meets it.
ParensKeepOrder ==
  phase = "ready" =>
    /\ Parens(compile_pipeline(pattern, 0).notquitepostfix) = Parens(pattern)
    /\ Len(GroupSaves(vm.prog)) = Len(Parens(pattern))

\* C10: with the groups numbered from 1 by their '(', the SAVE emitted for
\* the '(' of group k has slot 2k and the SAVE emitted for the ')' that
\* closes group k has slot 2k+1, nested groups included.
C10_GroupSlots ==
  phase = "ready" =>
    /\ Len(GroupSaves(vm.prog)) = Len(Groups(pattern))
    /\ \A j \in 1..Len(Groups(pattern)) :
         U32Val(GroupSaves(vm.prog)[j].data) =
           2 * Groups(pattern)[j].group + (IF Groups(pattern)[j].open THEN 0 ELSE 1)

\* a compile of a pattern with a group inside a group
C10_Nested ==
  /\ phase = "ready"
  /\ \E j \in 1..(Len(pattern) - 1) : pattern[j] = LPAREN /\ pattern[j + 1] = LPAREN

\* ------------------------------------------------------------------------
\* The language of a program
\* ------------------------------------------------------------------------
\* the code points a walk is fed: the letters of the patterns and one other
Sigma == Letters \cup {CH_z}

\* the ops that the ops of S lead to without input: both links of a
\* SPLIT, lb of a SAVE; a link that is not the address of an op leads nowhere
NfaEps(prog, S) ==
  {prog[k + 1].lb.i : k \in {j \in S : /\ prog[j + 1].opt \in {"SPLIT", "SAVE"}
                                       /\ LinkInside(prog, prog[j + 1].lb)}}
  \cup {prog[k + 1].rb.i : k \in {j \in S : /\ prog[j + 1].opt = "SPLIT"
                                            /\ LinkInside(prog, prog[j + 1].rb)}}

RECURSIVE NfaClosure(_, _)
NfaClosure(prog, S) ==
  IF NfaEps(prog, S) \subseteq S THEN S ELSE NfaClosure(prog, S \cup NfaEps(prog, S))

\* the op o consumes the code point c
NfaTakes(classes, o, c) ==
  CASE o.opt = "CHAR" -> o.data = U32(c)
    [] o.opt = "ANY" -> TRUE
    [] o.opt = "CLASS" -> /\ U32Val(o.data) < Len(classes)
                          /\ test_rev4byte(classes[U32Val(o.data) + 1], U32(c))
    [] OTHER -> FALSE

NfaStep(prog, classes, S, c) ==
  NfaClosure(prog, {prog[k + 1].lb.i :
                      k \in {j \in S : /\ NfaTakes(classes, prog[j + 1], c)
                                       /\ LinkInside(prog, prog[j + 1].lb)}})

NfaAccepting(prog, S) == \E k \in S : prog[k + 1].opt = "MATCH"

\* The walks of progA and progB accept the same strings over Sigma: todo
\* and seen hold pairs of op sets the two walks are in after the same input.
RECURSIVE SameLanguageFrom(_, _, _, _, _)
SameLanguageFrom(progA, progB, classes, todo, seen) ==
  IF todo = {} THEN TRUE
  ELSE With(CHOOSE x \in todo : TRUE, LAMBDA pr :
         IF NfaAccepting(progA, pr[1]) # NfaAccepting(progB, pr[2]) THEN FALSE
         ELSE SameLanguageFrom(progA, progB, classes,
                (todo \cup {<<NfaStep(progA, classes, pr[1], c),
                              NfaStep(progB, classes, pr[2], c)>> : c \in Sigma})
                  \ (seen \cup {pr}),
                seen \cup {pr}))

SameLanguage(progA, startA, progB, startB, classes) ==
  SameLanguageFrom(progA, progB, classes,
                   {<<NfaClosure(progA, {startA}), NfaClosure(progB, {startB})>>}, {})

\* C9: for every successfully compiled pattern prog_ruin has no SAVE op,
\* every link of prog_ruin that a walk follows is the address of an op of
\* prog_ruin, and the walk of prog_ruin from prog_ruin_start accepts the
\* strings that the walk of prog from its first op accepts.
C9_ReducedProgram ==
  phase = "ready" =>
    /\ \A k \in 1..Len(vm.prog_ruin) : vm.prog_ruin[k].opt # "SAVE"
    /\ vm.prog_ruin_start < Len(vm.prog_ruin)
    /\ LinksPatched(vm.prog_ruin)
    /\ SameLanguage(vm.prog, 0, vm.prog_ruin, vm.prog_ruin_start, vm.classes)

\* a compile that succeeded and dropped the SAVE ops of a group
C9_Reduced ==
  /\ phase = "ready"
  /\ LPAREN \in Range(pattern)
  /\ Len(vm.prog_ruin) < Len(vm.prog) - 2

\* ------------------------------------------------------------------------
\* Reference semantics of the patterns
\* ------------------------------------------------------------------------
\* '(' minus ')' among p[lo..k-1]: the nesting depth of position k
Depth(p, lo, k) ==
  Cardinality({j \in lo..(k - 1) : p[j] = LPAREN})
    - Cardinality({j \in lo..(k - 1) : p[j] = RPAREN})
\* the '|' of p[lo..hi] outside every group
TopBars(p, lo, hi) == {k \in lo..hi : p[k] = BAR /\ Depth(p, lo, k) = 0}
\* the last byte of the atom that starts at lo: the letter itself, or the
\* ')' that closes the group
AtomEnd(p, lo, hi) ==
  IF p[lo] = LPAREN
  THEN CHOOSE k \in lo..hi : /\ p[k] = RPAREN /\ Depth(p, lo, k + 1) = 0
                             /\ \A j \in (lo + 1)..k : Depth(p, lo, j) > 0
  ELSE lo
\* the last of the quantifiers that follow the atom ending at a
RECURSIVE QuantEnd(_, _, _)
QuantEnd(p, a, hi) ==
  IF a < hi /\ p[a + 1] \in Quantifiers THEN QuantEnd(p, a + 1, hi) ELSE a

\* Ref...(p, .., t, S): the positions of the text t at which p[lo..hi] can
\* end when it starts at a position of S
RECURSIVE RefAlt(_, _, _, _, _), RefCat(_, _, _, _, _), RefQuant(_, _, _, _, _, _),
          RefStar(_, _, _, _, _, _)
RefAlt(p, lo, hi, t, S) ==
  IF TopBars(p, lo, hi) = {} THEN RefCat(p, lo, hi, t, S)
  ELSE RefAlt(p, lo, Max(TopBars(p, lo, hi)) - 1, t, S)
         \cup RefCat(p, Max(TopBars(p, lo, hi)) + 1, hi, t, S)
RefCat(p, lo, hi, t, S) ==
  IF lo > hi THEN S
  ELSE RefCat(p, QuantEnd(p, AtomEnd(p, lo, hi), hi) + 1, hi, t,
              RefQuant(p, lo, AtomEnd(p, lo, hi), QuantEnd(p, AtomEnd(p, lo, hi), hi), t, S))
\* the atom p[lo..a] under the quantifiers p[a+1..q]
RefQuant(p, lo, a, q, t, S) ==
  IF q = a
  THEN IF p[lo] = LPAREN THEN RefAlt(p, lo + 1, a - 1, t, S)
       ELSE {i + 1 : i \in {j \in S : j < Len(t) /\ t[j + 1] = p[lo]}}
  ELSE CASE p[q] = QMARK -> S \cup RefQuant(p, lo, a, q - 1, t, S)
         [] p[q] = PLUS -> RefStar(p, lo, a, q - 1, t, RefQuant(p, lo, a, q - 1, t, S))
         [] OTHER -> RefStar(p, lo, a, q - 1, t, S)
RefStar(p, lo, a, q, t, S) ==
  IF RefQuant(p, lo, a, q, t, S) \subseteq S THEN S
  ELSE RefStar(p, lo, a, q, t, S \cup RefQuant(p, lo, a, q, t, S))

\* the ends of the prefixes of t that belong to the language of p
RefEnds(p, t) == RefAlt(p, 1, Len(p), t, {0})
\* some prefix of t belongs to the language of p
RefPrefix(p, t) == RefEnds(p, t) # {}
\* t belongs to the language of p
RefFull(p, t) == Len(t) \in RefEnds(p, t)

\* ------------------------------------------------------------------------
\* One call on a new engine
\* ------------------------------------------------------------------------
\* C1: on a newly compiled engine test<false>(text) returns, for every
\* pattern and every text, the empty text included, the boolean that
\* match<false, true>(text) returns on a newly compiled engine.
C1_TestIsMatch ==
  (calls = 1 /\ last.op = "test" /\ ~last.unanchored) =>
    With(match(nfa_vm(pattern).vm, last.str, FALSE, TRUE), LAMBDA m :
      last.err = "ok" /\ m.err = "ok" /\ last.ret = m.ret)

\* an anchored test of a text of two letters that returned
C1_Tested ==
  /\ calls = 1 /\ last.op = "test" /\ ~last.unanchored
  /\ last.err = "ok" /\ Len(last.str) >= 2

\* C2: on a newly compiled engine the anchored match returns true exactly
\* when some prefix of the text belongs to the language of the pattern; a
\* thread dropped by the gen stamp of its op is therefore never missed.
C2_MatchIsReference ==
  (calls = 1 /\ last.op = "match" /\ ~last.unanchored) =>
    /\ last.err = "ok"
    /\ last.ret <=> RefPrefix(pattern, last.str)

\* an anchored match that returned true on a pattern with a quantifier
C2_Matched ==
  /\ calls = 1 /\ last.op = "match" /\ ~last.unanchored
  /\ last.err = "ok" /\ last.ret
  /\ Range(pattern) \cap Quantifiers # {}

\* ------------------------------------------------------------------------
\* Several calls on one engine
\* ------------------------------------------------------------------------
\* the calls hist[i..j]
Between(i, j) == {hist[k] : k \in i..j}
\* what the caller sees of a call
Outcome(c) == <<c.err, c.ret, c.matches>>
\* what the caller sees of the call r of op on a new engine
FreshOutcome(r, op) ==
  <<r.err, r.err = "ok" /\ r.ret, IF r.err = "ok" /\ op = "match" THEN r.vm.matches ELSE <<>>>>

\* C3: after any sequence of earlier test calls on an engine, test(text)
\* returns what it returns on a newly compiled engine for the same pattern.
C3_TestHistoryFree ==
  (calls >= 2 /\ \A k \in 2..Len(hist) : hist[k].op = "test") =>
    Outcome(last) = FreshOutcome(test(nfa_vm(pattern).vm, last.str, last.unanchored), "test")

\* a test that returned after two earlier tests
C3_Tested ==
  /\ calls = 3 /\ \A k \in 2..Len(hist) : hist[k].op = "test"
  /\ last.err = "ok"

\* C4: a match called again with the same text and the same anchoring, no
\* recompile in between, returns the boolean and the match_indices of the
\* earlier call.
C4_MatchRepeatable ==
  \A i, j \in 2..Len(hist) :
    (/\ i < j
     /\ hist[i].op = "match" /\ hist[j].op = "match"
     /\ hist[i].str = hist[j].str /\ hist[i].unanchored = hist[j].unanchored
     /\ \A c \in Between(i, j) : c.op # "recompile")
    => Outcome(hist[i]) = Outcome(hist[j])

\* a match that returned true, called a second time
C4_Repeated ==
  /\ calls >= 2 /\ last.op = "match" /\ prev.op = "match"
  /\ prev.str = last.str /\ prev.unanchored = last.unanchored
  /\ prev.ret /\ last.err = "ok"

\* C5: recompile(P) followed by match(T) returns the boolean and the
\* match_indices that match(T) returns on a newly constructed engine for
\* P, whatever the engine held and whatever was matched on it before.
C5_RecompileThenMatch ==
  (last.op = "match" /\ prev.op = "recompile") =>
    Outcome(last) =
      FreshOutcome(match(nfa_vm(pattern).vm, last.str, last.unanchored, TRUE), "match")

\* a match that succeeded with captures, after a recompile to another
\* pattern of an engine that had matched before and whose pattern had a
\* group
C5_Recompiled ==
  /\ Len(hist) = 4
  /\ hist[2].op = "match" /\ hist[2].ret
  /\ hist[3].op = "recompile" /\ hist[3].str # hist[1].str
  /\ LPAREN \in Range(hist[1].str)
  /\ last.op = "match" /\ last.ret /\ last.matches # <<>>

\* the seed state, the ring buffer and the map of a cache
CacheState(mem) == <<mem.strt, mem.start, mem.end, mem.ring_buffer, mem.tree>>

\* C6: after recompile(P) the cache is the cache of a newly compiled engine
\* for P -- its seed state is the closure of the start op of P's reduced
\* program, and it has no ring-buffer entry and no map key of the old
\* pattern -- and test(T) returns what it returns on a newly compiled
\* engine for P.
C6_RecompileClearsCache ==
  /\ (last.op = "recompile" /\ last.err = "ok")
       => CacheState(vm.mem) = CacheState(nfa_vm(pattern).vm.mem)
  /\ (last.op = "test" /\ prev.op = "recompile")
       => Outcome(last) =
            FreshOutcome(test(nfa_vm(pattern).vm, last.str, last.unanchored), "test")

\* a test that returned after a recompile to another pattern
C6_TestedAfterRecompile ==
  /\ last.op = "test" /\ last.err = "ok"
  /\ prev.op = "recompile" /\ prev.str # hist[1].str

\* ------------------------------------------------------------------------
\* The capture slots of a match
\* ------------------------------------------------------------------------
\* C11: capture positions are stored biased by +1, so that a slot holds 0
\* exactly when no SAVE wrote it.  Every thread that reaches MATCH has run
\* SAVE 0 and the SAVE of slot 1, so in every entry of match_indices of a
\* match on a new engine both slots are not 0; an anchored match begins at
\* offset 0, which is stored as 1, and ends at an offset e, stored as
\* e + 1, such that the first e bytes of the text belong to the language.
C11_BiasedCaptures ==
  (calls = 1 /\ last.op = "match" /\ last.ret) =>
    \A k \in 1..Len(last.matches) :
      /\ last.matches[k][1] # 0
      /\ last.matches[k][2] # 0
      /\ ~last.unanchored =>
           /\ last.matches[k][1] = 1
           /\ (last.matches[k][2] - 1) \in RefEnds(pattern, last.str)

\* a match on a new engine that reported captures of a group
C11_Captured ==
  /\ calls = 1 /\ last.op = "match" /\ last.ret
  /\ Len(last.matches) >= 1
  /\ Len(last.matches[1]) >= 4

\* ------------------------------------------------------------------------
\* UTF-8
\* ------------------------------------------------------------------------
\* the number of bytes the start byte b announces; 0 when b starts nothing
Utf8Announced(b) ==
  IF b < 128 THEN 1
  ELSE IF b >= 192 /\ b < 224 THEN 2
  ELSE IF b >= 224 /\ b < 240 THEN 3
  ELSE IF b >= 240 /\ b < 248 THEN 4
  ELSE 0
IsContinuation(b) == b >= 128 /\ b < 192
\* a code point is encoded at offset i of s: all its bytes are there and
\* those after the first are continuation bytes
WellFormedAt(s, i) ==
  /\ Utf8Announced(s[i + 1]) > 0
  /\ i + Utf8Announced(s[i + 1]) <= Len(s)
  /\ \A k \in (i + 1)..(i + Utf8Announced(s[i + 1]) - 1) : IsContinuation(s[k + 1])
\* the offsets of s at which a code point starts, and the end of s; the
\* walk stops at the first offset where no code point is encoded
RECURSIVE BoundariesFrom(_, _)
BoundariesFrom(s, i) ==
  IF i >= Len(s) \/ ~WellFormedAt(s, i) THEN {i}
  ELSE {i} \cup BoundariesFrom(s, i + Utf8Announced(s[i + 1]))
Boundaries(s) == BoundariesFrom(s, 0)
ValidUtf8(s) == Len(s) \in Boundaries(s)

\* the groups of a match entry m, group 0 included, as the printing match
\* slices them: bytes m[2g] .. m[2g+1] - 1
GroupsOf(m) == 0..((Len(m) \div 2) - 1)
SliceStart(m, g) == m[2 * g + 1]
SliceEnd(m, g) == m[2 * g + 2]

\* C12: for every valid UTF-8 text and every successful match, the two
\* slots of every group that the match wrote are code-point boundaries of
\* the text, in order, so that the slice of the group is valid UTF-8.
C12_CapturesOnBoundaries ==
  (/\ calls = 1 /\ last.op = "match" /\ last.ret
   /\ ValidUtf8(pattern) /\ ValidUtf8(last.str)) =>
    \A k \in 1..Len(last.matches) : \A g \in GroupsOf(last.matches[k]) :
      (SliceStart(last.matches[k], g) # 0 \/ SliceEnd(last.matches[k], g) # 0) =>
        /\ SliceStart(last.matches[k], g) \in Boundaries(last.str)
        /\ SliceEnd(last.matches[k], g) \in Boundaries(last.str)
        /\ SliceStart(last.matches[k], g) <= SliceEnd(last.matches[k], g)

\* a successful match of a group that holds a code point of four bytes
C12_MatchedWide ==
  /\ calls = 1 /\ last.op = "match" /\ last.ret
  /\ ValidUtf8(last.str)
  /\ \E x \in CodePoints : Len(x) = 4 /\ pattern = <<LPAREN>> \o x \o <<RPAREN>>

\* ------------------------------------------------------------------------
\* Greedy quantifiers and left-preferring alternation
\* ------------------------------------------------------------------------
\* the length of the run of byte c at the start of s
RECURSIVE LeadingRun(_, _)
LeadingRun(s, c) ==
  IF s = <<>> \/ Head(s) # c THEN 0 ELSE 1 + LeadingRun(Tail(s), c)

\* C13: an unanchored match with Match_one of pattern a+ on a new engine,
\* against a text that begins with two or more 'a', succeeds, and group 0
\* of the first entry spans the whole leading run of 'a'.
C13_GreedyPlus ==
  (/\ calls = 1 /\ last.op = "match" /\ last.unanchored
   /\ last.err = "ok"
   /\ pattern = <<CH_a, PLUS>>
   /\ LeadingRun(last.str, CH_a) >= 2) =>
    /\ last.ret
    /\ Len(last.matches) >= 1
    /\ SliceEnd(last.matches[1], 0) - SliceStart(last.matches[1], 0)
         = LeadingRun(last.str, CH_a)

\* a+ was matched unanchored against a text that begins with "aa"
C13_PlusMatched ==
  /\ calls = 1 /\ last.op = "match" /\ last.unanchored /\ last.ret
  /\ pattern = <<CH_a, PLUS>>
  /\ LeadingRun(last.str, CH_a) >= 2

\* 'c', the third letter of the capture tests
CH_c == 99
MaxAltTextLen == 3
AltLetters == {CH_a, CH_b, CH_c}
\* the alternatives of the first and of the second group
AltFirst == {<<CH_a>>, <<CH_a, CH_b>>}
AltSecond == {<<CH_c>>, <<CH_b>>, <<CH_b, CH_c>>}
\* the pattern (x|y)
GroupAlt(x, y) == <<LPAREN>> \o x \o <<BAR>> \o y \o <<RPAREN>>
\* the patterns (x|y)(z|w), "(ab|a)(bc|c)" among them
AltPatterns ==
  {GroupAlt(x, y) \o GroupAlt(z, w) : x, y \in AltFirst, z, w \in AltSecond}
AltTexts == UNION {[1..k -> AltLetters] : k \in 0..MaxAltTextLen}

InitAlt == InitWith(AltPatterns)
AltMatch ==
  calls = 0 /\ \E str \in AltTexts, Unanchored \in BOOLEAN : DoMatch(str, Unanchored)
NextAlt == Construct \/ AltMatch
SpecAlt == InitAlt /\ [][NextAlt]_vars

IsPrefix(p, t) == Len(p) <= Len(t) /\ SubSeq(t, 1, Len(p)) = p
\* the bytes of group g of match entry m, as the printing match takes them
Slice(t, m, g) == SubSeq(t, SliceStart(m, g) + 1, SliceEnd(m, g))

\* C14: when both alternatives of the first '|' of (x|y)(z|w) lead to a
\* match of a prefix of the text, an anchored match on a new engine reports
\* first the captures of the thread that took the left alternatives:
\* group 1 is x, and group 2 is z when x z is a prefix of the text and w
\* otherwise.  For (ab|a)(bc|c) on "abc": group 1 = "ab", group 2 = "c".
C14_LeftAlternative ==
  \A x, y \in AltFirst, z, w \in AltSecond :
    (/\ calls = 1 /\ last.op = "match" /\ ~last.unanchored
     /\ last.err = "ok"
     /\ pattern = GroupAlt(x, y) \o GroupAlt(z, w)
     /\ x # y
     /\ IsPrefix(x \o z, last.str) \/ IsPrefix(x \o w, last.str)
     /\ IsPrefix(y \o z, last.str) \/ IsPrefix(y \o w, last.str)) =>
      /\ last.ret
      /\ Len(last.matches) >= 1
      /\ Slice(last.str, last.matches[1], 1) = x
      /\ Slice(last.str, last.matches[1], 2) =
           IF IsPrefix(x \o z, last.str) THEN z ELSE w

\* (ab|a)(bc|c) was matched against "abc"
C14_BothAlternatives ==
  /\ calls = 1 /\ last.op = "match" /\ ~last.unanchored /\ last.ret
  /\ pattern = GroupAlt(<<CH_a, CH_b>>, <<CH_a>>) \o GroupAlt(<<CH_b, CH_c>>, <<CH_c>>)
  /\ last.str = <<CH_a, CH_b, CH_c>>

\* ------------------------------------------------------------------------
\* Patterns that are not well formed
\* ------------------------------------------------------------------------
MaxSyntaxLen == 3
SyntaxBytes == {CH_a, LPAREN, RPAREN, LBRACK, RBRACK, BAR, STAR, BSLASH, DOT}
\* every string of these bytes, well formed or not
SyntaxPatterns == UNION {[1..k -> SyntaxBytes] : k \in 1..MaxSyntaxLen}
SyntaxTexts == {<<>>, <<CH_a>>, <<STAR>>, <<DOT>>}

InitSyntax == InitWith(SyntaxPatterns)
SyntaxMatch ==
  calls = 0 /\ \E str \in SyntaxTexts, Unanchored \in BOOLEAN : DoMatch(str, Unanchored)
NextSyntax == Construct \/ SyntaxMatch
SpecSyntax == InitSyntax /\ [][NextSyntax]_vars

\* the index of the ']' that closes the class opened at index i of p;
\* Len(p) + 1 when there is none
RECURSIVE ClassEnd(_, _)
ClassEnd(p, i) ==
  IF i > Len(p) THEN Len(p) + 1
  ELSE IF p[i] = RBRACK THEN i
  ELSE ClassEnd(p, i + 1)
\* the parentheses of p from index i on are unbalanced, depth groups being
\* open: a ')' closes no '(' or a '(' is never closed.  An escaped byte
\* and the bytes of a class are no parentheses.
RECURSIVE UnbalancedFrom(_, _, _)
UnbalancedFrom(p, i, depth) ==
  IF i > Len(p) THEN depth # 0
  ELSE IF p[i] = BSLASH THEN UnbalancedFrom(p, i + 2, depth)
  ELSE IF p[i] = LBRACK THEN UnbalancedFrom(p, ClassEnd(p, i) + 1, depth)
  ELSE IF p[i] = LPAREN THEN UnbalancedFrom(p, i + 1, depth + 1)
  ELSE IF p[i] = RPAREN THEN depth = 0 \/ UnbalancedFrom(p, i + 1, depth - 1)
  ELSE UnbalancedFrom(p, i + 1, depth)
Unbalanced(p) == UnbalancedFrom(p, 1, 0)

\* C15: the constructor rejects every pattern whose parentheses are
\* unbalanced with BadSyntax, and no engine with a program results.
C15_UnbalancedRejected ==
  (Len(hist) >= 1 /\ Unbalanced(pattern)) =>
    /\ hist[1].err = "BadSyntax"
    /\ phase # "ready"

\* the constructor ran on a pattern in which a '(' is never closed
C15_Unclosed ==
  /\ Len(hist) >= 1 /\ hist[1].op = "construct"
  /\ Unbalanced(pattern)
  /\ \E k \in 1..Len(pattern) : pattern[k] = LPAREN
  /\ \A k \in 1..Len(pattern) : pattern[k] \in {LPAREN, CH_a}

\* p has, from index i on, an unescaped ']' outside a class or a '[' that
\* no ']' closes
RECURSIVE StrayBracketFrom(_, _)
StrayBracketFrom(p, i) ==
  IF i > Len(p) THEN FALSE
  ELSE IF p[i] = BSLASH THEN StrayBracketFrom(p, i + 2)
  ELSE IF p[i] = LBRACK
         THEN ClassEnd(p, i) > Len(p) \/ StrayBracketFrom(p, ClassEnd(p, i) + 1)
  ELSE IF p[i] = RBRACK THEN TRUE
  ELSE StrayBracketFrom(p, i + 1)
StrayBracket(p) == StrayBracketFrom(p, 1)

\* C16: the constructor rejects with BadSyntax every pattern that has an
\* unescaped ']' outside a class or a '[' whose class is never closed.
C16_StrayBracketRejected ==
  (Len(hist) >= 1 /\ StrayBracket(pattern)) => hist[1].err = "BadSyntax"

\* the constructor ran on a pattern with a stray ']' and on one with an
\* unterminated class
C16_Rejected ==
  /\ Len(hist) >= 1 /\ hist[1].op = "construct" /\ hist[1].err = "BadSyntax"
  /\ StrayBracket(pattern)
  /\ pattern[Len(pattern)] \in {RBRACK, LBRACK}

\* the start byte at offset i of s announces a code point of two bytes or
\* more that is not encoded there: bytes are missing, or a byte after the
\* first is no continuation byte
MalformedAt(s, i) ==
  i < Len(s) /\ Utf8Announced(s[i + 1]) >= 2 /\ ~WellFormedAt(s, i)
\* the offset at which the walk over the code points of s stops
FirstBreak(s) == CHOOSE i \in Boundaries(s) : \A j \in Boundaries(s) : j <= i

\* C17: decoding a code point of 2, 3 or 4 announced bytes fails with
\* InvalidUtf8 when bytes are missing and when a following byte is no
\* continuation byte: the constructor throws it for a pattern of code
\* points with such a code point, and an anchored match of a pattern of
\* code points throws it for a text that begins with such a code point.
C17_MalformedRejected ==
  /\ (/\ Len(hist) >= 1
      /\ pattern \in BrokenStrings
      /\ MalformedAt(pattern, FirstBreak(pattern))) => hist[1].err = "InvalidUtf8"
  /\ (/\ calls = 1 /\ last.op = "match" /\ ~last.unanchored
      /\ pattern \in Utf8Words(1) \cup Utf8Words(2)
      /\ MalformedAt(last.str, 0)) => last.err = "InvalidUtf8"

\* a pattern of code points was matched against a text that begins with a
\* code point cut short
C17_Truncated ==
  /\ calls = 1 /\ last.op = "match" /\ ~last.unanchored
  /\ pattern \in Utf8Words(1)
  /\ MalformedAt(last.str, 0)
  /\ Utf8Announced(last.str[1]) > Len(last.str)
  /\ last.err = "InvalidUtf8"

\* ------------------------------------------------------------------------
\* Escapes
\* ------------------------------------------------------------------------
MaxEscapeAtoms == 3
MaxEscapeTextLen == 3
\* an atom is the letter a or an escaped byte, metacharacter or not
EscapeAtoms == {<<CH_a>>} \cup {<<BSLASH, b>> : b \in SyntaxBytes}
RECURSIVE AtomWords(_)
AtomWords(n) ==
  IF n = 0 THEN {<<>>} ELSE {w \o x : w \in AtomWords(n - 1), x \in EscapeAtoms}
\* the patterns of up to MaxEscapeAtoms atoms with an escape among them
EscapePatterns ==
  {p \in UNION {AtomWords(n) : n \in 1..MaxEscapeAtoms} :
     \E k \in 1..Len(p) : p[k] = BSLASH}
EscapeTexts == UNION {[1..k -> {CH_a, STAR, DOT}] : k \in 0..MaxEscapeTextLen}

InitEscape == InitWith(EscapePatterns)
EscapeMatch ==
  calls = 0 /\ \E str \in EscapeTexts, Unanchored \in BOOLEAN : DoMatch(str, Unanchored)
NextEscape == Construct \/ EscapeMatch
SpecEscape == InitEscape /\ [][NextEscape]_vars

\* the bytes a pattern of atoms stands for: each pair \b is the byte b
RECURSIVE Literal(_)
Literal(p) ==
  IF p = <<>> THEN <<>>
  ELSE IF Head(p) = BSLASH /\ Len(p) >= 2 THEN <<p[2]>> \o Literal(SubSeq(p, 3, Len(p)))
  ELSE <<Head(p)>> \o Literal(Tail(p))
\* the code points of the CHAR ops of prog, in program order
CharData(prog) ==
  [k \in 1..Len(SelectSeq(prog, LAMBDA o : o.opt = "CHAR")) |->
     U32Val(SelectSeq(prog, LAMBDA o : o.opt = "CHAR")[k].data)]

\* C18: a pattern of atoms in which some are escapes \b, at any position,
\* compiles, each \b to one CHAR op for b concatenated with its
\* neighbours: the CHAR ops of the program are the bytes of the atoms in
\* order, and an anchored match on the new engine is true exactly for the
\* texts that begin with these bytes (\*a matches "*a", a\. matches "a.").
C18_EscapeIsChar ==
  /\ Len(hist) >= 1 =>
       /\ hist[1].err = "ok"
       /\ CharData(vm.prog) = Literal(pattern)
  /\ (calls = 1 /\ last.op = "match" /\ ~last.unanchored) =>
       /\ last.err = "ok"
       /\ last.ret = IsPrefix(Literal(pattern), last.str)

\* the constructor ran on \*a and on a\.
C18_Escaped ==
  /\ Len(hist) >= 1 /\ hist[1].op = "construct"
  /\ pattern \in {<<BSLASH, STAR, CH_a>>, <<CH_a, BSLASH, DOT>>}

\* ------------------------------------------------------------------------
\* utf8_bitmap as a set of code points
\* ------------------------------------------------------------------------
MaxBitmapOps == 3
\* utf8_bitmap::remove(a), remove(a, b), remove(a, b, c), remove(a, b, c, d)
bitmap_remove(m, n, a, b, c, d) ==
  CASE n = 1 -> [m EXCEPT !.ascii = @ \ {a}]
    [] n = 2 -> [m EXCEPT !.latin = @ \ {utf_2byte_h(a, b)}]
    [] n = 3 -> [m EXCEPT !.bmp = @ \ {utf_3byte_h(a, b, c)}]
    [] OTHER -> [m EXCEPT !.others =
                   @ \ {<<(a % 8) * 64 + (b % 32), (c % 32) * 64 + (d % 32)>>}]
remove_rev4byte(m, w) == bitmap_remove(m, utf_bytes(w[1]), w[1], w[2], w[3], w[4])

\* pack_rev4byte: the bytes of a code point, padded with zeros
pack_rev4byte(c) == [k \in 1..4 |-> IF k <= Len(c) THEN c[k] ELSE 0]

\* code points of 1, 2, 3 and 4 bytes, two of each length: a b, U+00E9
\* U+00C9, U+20AC U+208C, U+1F60A U+1F62A
BitmapPoints ==
  {<<CH_a>>, <<CH_b>>, <<195, 169>>, <<195, 137>>,
   <<226, 130, 172>>, <<226, 130, 140>>,
   <<240, 159, 152, 138>>, <<240, 159, 152, 170>>}

\* one utf8_bitmap, kept as the only class of an engine without a program
InitBitmap ==
  /\ vm = [NewVm EXCEPT !.classes = <<EmptyBitmap>>]
  /\ pattern = <<>>
  /\ phase = "ready"
  /\ hist = <<>>

BitmapCall(op, c, ret, m) ==
  /\ vm' = [vm EXCEPT !.classes = <<m>>]
  /\ hist' = Append(hist, Call(op, c, FALSE, ret, "ok", <<>>))
  /\ UNCHANGED <<pattern, phase>>
\* insert_rev4byte(c)
BitmapInsert ==
  /\ Len(hist) < MaxBitmapOps
  /\ \E c \in BitmapPoints :
       BitmapCall("insert", c, FALSE, insert_rev4byte(vm.classes[1], pack_rev4byte(c)))
\* remove_rev4byte(c)
BitmapRemove ==
  /\ Len(hist) < MaxBitmapOps
  /\ \E c \in BitmapPoints :
       BitmapCall("remove", c, FALSE, remove_rev4byte(vm.classes[1], pack_rev4byte(c)))
\* test_rev4byte(c)
BitmapTest ==
  /\ Len(hist) < MaxBitmapOps
  /\ \E c \in BitmapPoints :
       BitmapCall("test", c, test_rev4byte(vm.classes[1], pack_rev4byte(c)), vm.classes[1])
NextBitmap == BitmapInsert \/ BitmapRemove \/ BitmapTest
SpecBitmap == InitBitmap /\ [][NextBitmap]_vars

\* the code points inserted and not removed since by the first k calls
RECURSIVE MembersAfter(_, _)
MembersAfter(h, k) ==
  IF k = 0 THEN {}
  ELSE IF h[k].op = "insert" THEN MembersAfter(h, k - 1) \cup {h[k].str}
  ELSE IF h[k].op = "remove" THEN MembersAfter(h, k - 1) \ {h[k].str}
  ELSE MembersAfter(h, k - 1)

\* C19: after any sequence of insert and remove, test(c) is true exactly
\* for the code points inserted and not removed since, for code points of
\* 1, 2, 3 and 4 bytes.
C19_ExactSet ==
  \A k \in 1..Len(hist) :
    hist[k].op = "test" => (hist[k].ret <=> hist[k].str \in MembersAfter(hist, k - 1))

\* a code point of four bytes was inserted and then tested
C19_TestedWide ==
  /\ Len(hist) >= 2
  /\ last.op = "test" /\ Len(last.str) = 4 /\ last.ret
  /\ prev.op = "insert" /\ prev.str = last.str

\* ------------------------------------------------------------------------
\* A group beside an alternative without one
\* ------------------------------------------------------------------------
MaxGroupWordLen == 2
MaxGroupTextLen == 2
GroupWords == UNION {[1..k -> Letters] : k \in 1..MaxGroupWordLen}
\* the pattern x|(y) and the pattern (x)|y
AltThenGroup(x, y) == x \o <<BAR, LPAREN>> \o y \o <<RPAREN>>
GroupThenAlt(x, y) == <<LPAREN>> \o x \o <<RPAREN, BAR>> \o y
GroupPatterns ==
  {AltThenGroup(x, y) : x, y \in GroupWords} \cup {GroupThenAlt(x, y) : x, y \in GroupWords}

InitGroup == InitWith(GroupPatterns)
GroupMatch ==
  calls = 0 /\ \E str \in TextsUpTo(MaxGroupTextLen), Unanchored \in BOOLEAN :
                 DoMatch(str, Unanchored)
NextGroup == Construct \/ GroupMatch
SpecGroup == InitGroup /\ [][NextGroup]_vars

\* C20: when the text begins with the alternative that has no group and
\* not with the one in the group, so that no matching thread traversed the
\* group, both slots of the group are unset (0) in every reported entry of
\* an anchored match (a|(b) against "a": slots 2 and 3 are 0).
C20_UntraversedUnset ==
  \A x, y \in GroupWords :
    (/\ calls = 1 /\ last.op = "match" /\ ~last.unanchored /\ last.ret
     /\ \/ pattern = AltThenGroup(x, y) /\ IsPrefix(x, last.str) /\ ~IsPrefix(y, last.str)
        \/ pattern = GroupThenAlt(y, x) /\ IsPrefix(x, last.str) /\ ~IsPrefix(y, last.str)) =>
      \A k \in 1..Len(last.matches) :
        /\ SliceStart(last.matches[k], 1) = 0
        /\ SliceEnd(last.matches[k], 1) = 0

\* a|(b) was matched against "a"
C20_GroupSkipped ==
  /\ calls = 1 /\ last.op = "match" /\ ~last.unanchored /\ last.ret
  /\ pattern = AltThenGroup(<<CH_a>>, <<CH_b>>)
  /\ last.str = <<CH_a>>

\* ------------------------------------------------------------------------
\* The tokens of a pattern
\* ------------------------------------------------------------------------
\* the number of bytes of the atom that starts at index i of p: an escaped
\* pair, a class up to its ']', or one code point
AtomLen(p, i) ==
  IF p[i] = BSLASH /\ i < Len(p) THEN 2
  ELSE IF p[i] = LBRACK THEN ClassEnd(p, i) - i + 1
  ELSE utf_bytes(p[i])
\* the tokens the atoms of p from index i on are to give: each atom, and
\* after it the marker NUL iff the atom is neither '|' nor '(' and a byte
\* follows the whole atom that is none of ) | * + ?
RECURSIVE TokensFrom(_, _)
TokensFrom(p, i) ==
  IF i > Len(p) THEN <<>>
  ELSE
    With(i + AtomLen(p, i), LAMBDA nxt :
      SubSeq(p, i, nxt - 1)
      \o (IF /\ p[i] \notin {BAR, LPAREN}
             /\ nxt <= Len(p)
             /\ p[nxt] \notin {RPAREN, BAR, STAR, PLUS, QMARK}
          THEN <<NUL>> ELSE <<>>)
      \o TokensFrom(p, nxt))

\* C21: for every pattern that tokenise accepts, its output is the atoms
\* of the pattern in order with the marker NUL after an atom iff the next
\* byte after the whole atom exists and is none of ) | * + ?, none after
\* '|' or '(' and none after the last atom.
C21_ConcatMarkers ==
  (Len(hist) >= 1 /\ tokenise(pattern).err = "ok") =>
    tokenise(pattern).out = TokensFrom(pattern, 1)

\* the constructor tokenised a pattern with an escaped pair before an atom
C21_TokenisedEscape ==
  /\ Len(hist) >= 1 /\ hist[1].op = "construct"
  /\ tokenise(pattern).err = "ok"
  /\ Len(pattern) = 3 /\ pattern[1] = BSLASH /\ pattern[3] = CH_a

\* ------------------------------------------------------------------------
\* The cache as a map onto a ring
\* ------------------------------------------------------------------------
\* the number of ops of the reduced program the DFA states are sets of
MaxCacheOps == 3
\* the largest argument of cache::resize: a ring of 2 or of 4 elements
MaxCacheRequest == 3
\* a DFA state with the op set S: set_range, then one insert per member in
\* increasing order
RECURSIVE InsertAll(_, _)
InsertAll(hs, S) ==
  IF S = {} THEN hs
  ELSE With(CHOOSE x \in S : \A y \in S : x <= y, LAMBDA x :
         InsertAll(set_insert(hs, x), S \ {x}))
CelOf(S) == [EmptyCel EXCEPT !.ops = InsertAll(set_range(EmptySet, MaxCacheOps).hs, S)]
CacheStates == {CelOf(S) : S \in (SUBSET (0..(MaxCacheOps - 1))) \ {{}}}

\* a cache after resize(n), in an engine without a program
InitCache ==
  /\ \E n \in 1..MaxCacheRequest : vm = [NewVm EXCEPT !.mem = cache_resize(EmptyCache, n)]
  /\ pattern = <<>>
  /\ phase = "ready"
  /\ hist = <<>>
\* the run loop has built the state tmp and the map does not hold it:
\* push(std::move(tmp))
CacheInsert ==
  /\ phase = "ready"
  /\ \E tmp \in CacheStates :
       /\ ~cache_test(vm.mem, tmp.ops)
       /\ Ok(cache_push(vm.mem, tmp))
       /\ vm' = [vm EXCEPT !.mem = cache_push(vm.mem, tmp).mem]
  /\ UNCHANGED <<pattern, phase, hist>>
\* the run loop has built a state that the map holds: nothing is pushed,
\* the call is recorded
CacheHit ==
  /\ phase = "ready" /\ Len(hist) < 1
  /\ \E tmp \in CacheStates :
       /\ cache_test(vm.mem, tmp.ops)
       /\ hist' = Append(hist, Call("hit", tmp.ops.dense, FALSE, TRUE, "ok", <<>>))
  /\ UNCHANGED <<vm, pattern, phase>>
NextCache == CacheInsert \/ CacheHit
SpecCache == InitCache /\ [][NextCache]_vars

\* C22: after any sequence of insertions by the run loop every key of the
\* map maps to a ring slot whose op set is that key, and the map has no
\* more keys than the ring has slots.
C22_MapMatchesRing ==
  /\ \A e \in vm.mem.tree :
       TreeKey(Ring(vm.mem, Mask(vm.mem, e.val + vm.mem.start)).ops) = e.key
  /\ Cardinality(vm.mem.tree) <= vm.mem.size_less1 + 1

\* one state more than the ring has slots was inserted
C22_RingWrapped ==
  /\ vm.mem.tree # {}
  /\ \E e \in vm.mem.tree : e.val = 0
  /\ vm.mem.end = 1
  /\ Cardinality(vm.mem.tree) > 1

\* ------------------------------------------------------------------------
\* The transitions the run loop takes
\* ------------------------------------------------------------------------
\* The passes of the loop of cache::run from byte idx, as run_from makes
\* them: for each pass the op set of the state left (from), the byte index
\* of the code point read (idx) and the op set of the state entered (to).
RECURSIVE Departures(_, _, _, _, _, _, _)
Departures(mem, s, idx, oplist, st_op, classes, Unanchored) ==
  IF idx >= Len(s) THEN {}
  ELSE With(run_advance(mem, s, idx, oplist, classes), LAMBDA a :
    IF ~Ok(a) \/ ~set_test_ok(a.mem.strt.ops, Len(oplist) - 1) THEN {}
    ELSE {[from |-> mem.strt.ops, idx |-> idx, to |-> a.mem.strt.ops]}
         \cup (IF set_test(a.mem.strt.ops, Len(oplist) - 1) THEN {}
               ELSE IF ~Unanchored
               THEN Departures(a.mem, s, idx + utf_bytes(Rd(s, idx)), oplist, st_op,
                               classes, Unanchored)
               ELSE With(resolve_split(a.mem.strt.ops, OpPtr(st_op), oplist,
                                       a.mem.strt.filter, TRUE),
                         LAMBDA rs :
                           IF ~Ok(rs) THEN {}
                           ELSE Departures([a.mem EXCEPT !.strt.ops = rs.list,
                                                         !.strt.filter = rs.filter],
                                           s, idx + utf_bytes(Rd(s, idx)), oplist, st_op,
                                           classes, Unanchored))))
\* the passes of the first test of a new engine for the pattern regex
TestDepartures(regex, str, Unanchored) ==
  With(nfa_vm(regex).vm, LAMBDA e :
    IF Len(str) = 0 \/ ~set_test_ok(e.mem.strt.ops, Len(e.prog_ruin) - 1)
       \/ set_test(e.mem.strt.ops, Len(e.prog_ruin) - 1)
    THEN {}
    ELSE Departures(e.mem, str, 0, e.prog_ruin, e.prog_ruin_start, e.classes, Unanchored))
\* the passes that left a state the map holds
CachedDepartures(mem, regex, str, Unanchored) ==
  {d \in TestDepartures(regex, str, Unanchored) : cache_test(mem, d.from)}

\* C23: once the run loop has built or found the successor of the state S
\* on the code point u, next_state of the cache entry of S holds it: step
\* from that entry on u gives the entry of the successor.
C23_TransitionRecorded ==
  (calls = 1 /\ last.op = "test" /\ last.err = "ok") =>
    \A d \in CachedDepartures(vm.mem, pattern, last.str, last.unanchored) :
      /\ cache_test(vm.mem, d.to)
      /\ step(Ring(vm.mem, cache_find(vm.mem, d.from)), last.str, d.idx).nxt
           = CelPtr(cache_find(vm.mem, d.to))

\* a test has left a state that the map holds
C23_LeftCachedState ==
  /\ calls = 1 /\ last.op = "test" /\ last.err = "ok"
  /\ CachedDepartures(vm.mem, pattern, last.str, last.unanchored) # {}

\* ------------------------------------------------------------------------
\* The filter of a DFA state
\* ------------------------------------------------------------------------
\* the code points of one byte the patterns of SpecSyntax are written in, as
\* get_utf8_n_inc returns them
FilterProbes == {get_utf8_n_inc(<<b>>, 0).cp : b \in SyntaxBytes}
\* the ops of the state cel: the op at each index of its op set
CelOps(cel, oplist) ==
  {oplist[cel.ops.dense[j] + 1] : j \in {k \in 1..Len(cel.ops.dense) : cel.ops.dense[k] < Len(oplist)}}
\* u is the code point of a CHAR op of cel or a member of the class of a
\* CLASS op of cel
Consumes(cel, u, oplist, classes) ==
  \E o \in CelOps(cel, oplist) :
    \/ o.opt = "CHAR" /\ o.data = u
    \/ o.opt = "CLASS" /\ U32Val(o.data) < Len(classes)
         /\ test_rev4byte(classes[U32Val(o.data) + 1], u)
\* the states the engine holds: strt and the ring entries the map points to
HeldStates(e) == {e.mem.strt} \cup {Ring(e.mem, Mask(e.mem, x.val + e.mem.start)) : x \in e.mem.tree}

\* C24: the filter of a DFA state built by resolve_split holds exactly the
\* code points of the CHAR ops of the state and the members of the classes
\* of its CLASS ops.
C24_FilterExact ==
  (phase = "ready" /\ Len(hist) >= 1) =>
    \A cel \in HeldStates(vm) : \A u \in FilterProbes :
      test_rev4byte(cel.filter, u) <=> Consumes(cel, u, vm.prog_ruin, vm.classes)

\* the engine holds a state with a CLASS op whose class has a member
C24_ClassState ==
  /\ phase = "ready" /\ Len(hist) >= 1
  /\ \E cel \in HeldStates(vm) : \E o \in CelOps(cel, vm.prog_ruin) : o.opt = "CLASS"
  /\ \E cel \in HeldStates(vm) : \E u \in FilterProbes : Consumes(cel, u, vm.prog_ruin, vm.classes)

\* ------------------------------------------------------------------------
\* test with the rebuild limit set by the caller
\* ------------------------------------------------------------------------
\* the largest value the caller gives mem.rebuild_lim
MaxRebuildLim == 1
\* e.mem.rebuild_lim = n
set_rebuild_lim(e, n) == [vm |-> [e EXCEPT !.mem.rebuild_lim = n], err |-> "ok"]
SetRebuildLim ==
  /\ phase = "ready" /\ calls = 0
  /\ \E n \in 0..MaxRebuildLim : Leave(set_rebuild_lim(vm, n), "set_rebuild_lim", <<n>>, FALSE)
  /\ UNCHANGED pattern
\* the first test of the engine, with the limit as constructed or as set
LimitTest ==
  /\ calls <= 1 /\ last.op # "test"
  /\ \E str \in FreshTexts, Unanchored \in BOOLEAN : DoTest(str, Unanchored)
NextLimit == Construct \/ SetRebuildLim \/ LimitTest
SpecLimit == InitFresh /\ [][NextLimit]_vars

\* C25: a test that runs into the rebuild limit hands over to the NFA loop
\* and returns what the test of a new engine with the limits as constructed
\* returns.
C25_FallbackAgrees ==
  (calls = 2 /\ prev.op = "set_rebuild_lim" /\ last.op = "test") =>
    With(test(nfa_vm(pattern).vm, last.str, last.unanchored), LAMBDA d :
      Ok(d) => (last.err = "ok" /\ last.ret = d.ret))

\* a test ran with the limit 0 on a text the engine with the limits as
\* constructed accepts
C25_LimitHit ==
  /\ calls = 2 /\ prev.op = "set_rebuild_lim" /\ prev.str = <<0>> /\ last.op = "test"
  /\ Len(last.str) >= 2
  /\ With(test(nfa_vm(pattern).vm, last.str, last.unanchored), LAMBDA d : Ok(d) /\ d.ret)

\* ------------------------------------------------------------------------
\* utf8_bitmap: operator|= and operator&=
\* ------------------------------------------------------------------------
\* The tiers latin, bmp and others, and each element of others, are null
\* pointers until the first insert into them.  The two operators are applied
\* here to bitmaps built by insert alone, for which a tier is null exactly
\* when it holds nothing.
\* operator|=: ascii, bmp and others are joined, latin is not read
bitmap_or(m, other) ==
  [m EXCEPT !.ascii = @ \cup other.ascii,
            !.bmp = @ \cup other.bmp,
            !.others = @ \cup other.others]
\* operator&=: a tier is intersected where both sides have it, and left as
\* it is where the other side has none
bitmap_and(m, other) ==
  [m EXCEPT !.ascii = @ \cap other.ascii,
            !.latin = IF @ # {} /\ other.latin # {} THEN @ \cap other.latin ELSE @,
            !.bmp = IF @ # {} /\ other.bmp # {} THEN @ \cap other.bmp ELSE @,
            !.others = IF @ # {} /\ other.others # {}
                       THEN {p \in @ : p \in other.others
                                        \/ ~\E q \in other.others : q[1] = p[1]}
                       ELSE @]

\* the number of inserts made into the two bitmaps
MaxPairInserts == 3
\* two bitmaps A and B, kept as the classes of an engine without a program
InitPair ==
  /\ vm = [NewVm EXCEPT !.classes = <<EmptyBitmap, EmptyBitmap>>]
  /\ pattern = <<>>
  /\ phase = "ready"
  /\ hist = <<>>
PairCall(op, c, classes) ==
  /\ vm' = [vm EXCEPT !.classes = classes]
  /\ hist' = Append(hist, Call(op, c, FALSE, FALSE, "ok", <<>>))
  /\ UNCHANGED <<pattern, phase>>
Combined == last.op \in {"or", "and"}
\* A.insert_rev4byte(c)
PairInsertA ==
  /\ Len(hist) < MaxPairInserts /\ ~Combined
  /\ \E c \in BitmapPoints :
       PairCall("insert_a", c, [vm.classes EXCEPT ![1] = insert_rev4byte(@, pack_rev4byte(c))])
\* B.insert_rev4byte(c)
PairInsertB ==
  /\ Len(hist) < MaxPairInserts /\ ~Combined
  /\ \E c \in BitmapPoints :
       PairCall("insert_b", c, [vm.classes EXCEPT ![2] = insert_rev4byte(@, pack_rev4byte(c))])
\* A |= B
PairOr ==
  /\ ~Combined
  /\ PairCall("or", <<>>, [vm.classes EXCEPT ![1] = bitmap_or(@, vm.classes[2])])
\* A &= B
PairAnd ==
  /\ ~Combined
  /\ PairCall("and", <<>>, [vm.classes EXCEPT ![1] = bitmap_and(@, vm.classes[2])])
NextPair == PairInsertA \/ PairInsertB \/ PairOr \/ PairAnd
SpecPair == InitPair /\ [][NextPair]_vars

\* the bitmap the inserts named op among the first k calls have built
RECURSIVE Inserted(_, _, _)
Inserted(h, k, op) ==
  IF k = 0 THEN EmptyBitmap
  ELSE IF h[k].op = op THEN insert_rev4byte(Inserted(h, k - 1, op), pack_rev4byte(h[k].str))
  ELSE Inserted(h, k - 1, op)
Held(m, c) == test_rev4byte(m, pack_rev4byte(c))

\* C26: after A |= B the bitmap A holds exactly the code points that A or B
\* held, after A &= B exactly those both held, for code points of 1, 2, 3
\* and 4 bytes.
C26_UnionIntersection ==
  \A c \in BitmapPoints :
    /\ last.op = "or" =>
         (Held(vm.classes[1], c) <=>
            (Held(Inserted(hist, Len(hist) - 1, "insert_a"), c) \/ Held(vm.classes[2], c)))
    /\ last.op = "and" =>
         (Held(vm.classes[1], c) <=>
            (Held(Inserted(hist, Len(hist) - 1, "insert_a"), c) /\ Held(vm.classes[2], c)))

\* B held a code point of two bytes that A did not hold when A |= B was made
C26_OnlyInB ==
  /\ last.op = "or"
  /\ \E c \in BitmapPoints :
       Len(c) = 2 /\ Held(vm.classes[2], c)
       /\ ~Held(Inserted(hist, Len(hist) - 1, "insert_a"), c)

\* ------------------------------------------------------------------------
\* comp as the order of the keys of the map
\* ------------------------------------------------------------------------
\* the 64-bit limbs of the longest vector compared, and the bits of each
\* limb that the vectors may have set
MaxCompLimbs == 2
MaxCompBit == 1
CompKeys ==
  UNION {{[bits |-> S, nbytes |-> 8 * n] :
            S \in SUBSET {64 * k + j : k \in 0..(n - 1), j \in 0..MaxCompBit}} :
         n \in 1..MaxCompLimbs}
\* bitvector::operator==
bitvector_eq(lhs, rhs) ==
  lhs.nbytes = rhs.nbytes
  /\ \A k \in 0..((lhs.nbytes \div 8) - 1) : limb(lhs.bits, k) = limb(rhs.bits, k)

\* the keys of two hybrid sets, as the map compares them
InitComp ==
  /\ vm = NewVm
  /\ pattern = <<>>
  /\ phase = "ready"
  /\ hist = <<>>
\* comp(lhs, rhs), comp(rhs, lhs) and lhs == rhs
CompPair ==
  /\ Len(hist) = 0
  /\ \E lhs \in CompKeys, rhs \in CompKeys :
       hist' = <<[op |-> "comp", lhs |-> lhs, rhs |-> rhs, less |-> comp(lhs, rhs),
                  greater |-> comp(rhs, lhs), equal |-> bitvector_eq(lhs, rhs)]>>
  /\ UNCHANGED <<vm, pattern, phase>>
NextComp == CompPair
SpecComp == InitComp /\ [][NextComp]_vars

\* C27: of comp(a, b), comp(b, a) and a == b exactly one holds, for vectors
\* of one and of several limbs.
C27_ExactlyOne ==
  Len(hist) = 1 =>
    /\ last.less \/ last.greater \/ last.equal
    /\ ~(last.less /\ last.greater)
    /\ ~(last.less /\ last.equal)
    /\ ~(last.greater /\ last.equal)

\* two different vectors of two limbs were compared
C27_TwoLimbs ==
  /\ Len(hist) = 1
  /\ last.lhs.nbytes = 16 /\ last.rhs.nbytes = 16
  /\ ~last.equal

\* ------------------------------------------------------------------------
\* hybrid_set: the operations on one set
\* ------------------------------------------------------------------------
\* the largest size given to the constructor and to set_range, and the
\* number of operations made on the set
MaxSetRange == 3
MaxSetOps == 4
\* hybrid_set(size): sparse_set(size) gives dense and sparse size elements
\* each, all zero; bitvector(size) gives the bytes, all zero
set_sized(size) ==
  [dense |-> [k \in 1..size |-> 0], sparse |-> [k \in 1..size |-> 0], range |-> size,
   bits |-> {}, nbytes |-> bitvector_bytes(size)]
\* sparse_set::test(i)
sparse_test(hs, i) ==
  hs.sparse[i + 1] < Len(hs.dense) /\ hs.dense[hs.sparse[i + 1] + 1] = i
\* hybrid_set::test_insert(i)
set_test_insert(hs, i) ==
  IF sparse_test(hs, i) THEN [hs EXCEPT !.bits = @ \cup {i}] ELSE set_insert(hs, i)
\* hybrid_set::remove(i): the bit is reset, then sparse_set::remove moves the
\* last member into the place of i, or throws when test(i) is false
set_remove(hs, i) ==
  IF sparse_test(hs, i)
  THEN [hs |-> [hs EXCEPT !.bits = @ \ {i},
                          !.dense = Front([@ EXCEPT ![hs.sparse[i + 1] + 1] = Last(hs.dense)]),
                          !.sparse = [@ EXCEPT ![Last(hs.dense) + 1] = hs.sparse[i + 1]]],
        err |-> "ok"]
  ELSE [hs |-> [hs EXCEPT !.bits = @ \ {i}], err |-> "InvalidArgument"]

\* one hybrid_set, kept as the op set of strt of an engine without a
\* program, after hybrid_set() or hybrid_set(size)
InitSet ==
  /\ \E hs \in {EmptySet} \cup {set_sized(n) : n \in 1..MaxSetRange} :
       vm = [NewVm EXCEPT !.mem.strt.ops = hs]
  /\ pattern = <<>>
  /\ phase = "ready"
  /\ hist = <<>>
SetCall(op, i, r) ==
  /\ vm' = [vm EXCEPT !.mem.strt.ops = r.hs]
  /\ phase' = PhaseAfter(r.err)
  /\ hist' = Append(hist, Call(op, <<i>>, FALSE, FALSE, r.err, <<>>))
  /\ UNCHANGED pattern
TheSet == vm.mem.strt.ops
\* the indices the set can be given: those below its range
SetIndices == 0..(TheSet.range - 1)
SetInsert ==
  /\ phase = "ready" /\ Len(hist) < MaxSetOps
  /\ \E i \in SetIndices : SetCall("insert", i, [hs |-> set_insert(TheSet, i), err |-> "ok"])
SetTestInsert ==
  /\ phase = "ready" /\ Len(hist) < MaxSetOps
  /\ \E i \in SetIndices :
       SetCall("test_insert", i, [hs |-> set_test_insert(TheSet, i), err |-> "ok"])
SetRemove ==
  /\ phase = "ready" /\ Len(hist) < MaxSetOps
  /\ \E i \in SetIndices : SetCall("remove", i, set_remove(TheSet, i))
SetClear ==
  /\ phase = "ready" /\ Len(hist) < MaxSetOps
  /\ SetCall("clear", 0, [hs |-> set_clear(TheSet), err |-> "ok"])
SetRange ==
  /\ phase = "ready" /\ Len(hist) < MaxSetOps
  /\ \E n \in 1..MaxSetRange : SetCall("set_range", n, set_range(TheSet, n))
NextSet == SetInsert \/ SetTestInsert \/ SetRemove \/ SetClear \/ SetRange
SpecSet == InitSet /\ [][NextSet]_vars

\* C28: after any sequence of operations the indices held in the dense
\* array are the bits set in the bit vector.
C28_ViewsAgree ==
  {TheSet.dense[k] : k \in 1..Len(TheSet.dense)} = TheSet.bits

\* a member was removed from a set that still has members
C28_Removed ==
  /\ Len(hist) >= 1 /\ last.op = "remove" /\ last.err = "ok"
  /\ TheSet.dense # <<>>

\* ------------------------------------------------------------------------
\* Character classes
\* ------------------------------------------------------------------------
\* the number of items between the brackets
MaxClassItems == 3
\* the items: the bytes the three ranges are written in, another letter, a
\* code point of two bytes (U+00E9), and the three ranges
ClassItems ==
  {<<CH_a>>, <<CH_z>>, <<MINUS>>, <<CH_b>>, <<UPPERA>>, <<UPPERZ>>, <<DIGIT0>>, <<DIGIT9>>,
   <<195, 169>>,
   <<CH_a, MINUS, CH_z>>, <<UPPERA, MINUS, UPPERZ>>, <<DIGIT0, MINUS, DIGIT9>>}
RECURSIVE ItemWords(_)
ItemWords(n) ==
  IF n = 0 THEN {<<>>} ELSE {w \o x : w \in ItemWords(n - 1), x \in ClassItems}
ClassPatterns ==
  {<<LBRACK>> \o w \o <<RBRACK>> : w \in UNION {ItemWords(n) : n \in 1..MaxClassItems}}
InitClass == InitWith(ClassPatterns)
\* one match of a text of one code point on the new engine
ClassMatch ==
  calls = 0 /\ \E str \in {<<CH_a>>, <<CH_b>>, <<MINUS>>, <<195, 169>>}, Unanchored \in BOOLEAN :
                 DoMatch(str, Unanchored)
NextClass == Construct \/ ClassMatch
SpecClass == InitClass /\ [][NextClass]_vars

\* the code points a class is to hold: from the byte at i of the pattern,
\* a-z, A-Z and 0-9 stand for their 26, 26 and 10 members, every other code
\* point for itself
RECURSIVE ClassMembers(_, _)
ClassMembers(p, i) ==
  IF i > Len(p) \/ p[i] = RBRACK THEN {}
  ELSE IF i + 2 <= Len(p) /\ SubSeq(p, i, i + 2) = <<CH_a, MINUS, CH_z>>
  THEN {<<c>> : c \in 97..122} \cup ClassMembers(p, i + 3)
  ELSE IF i + 2 <= Len(p) /\ SubSeq(p, i, i + 2) = <<UPPERA, MINUS, UPPERZ>>
  THEN {<<c>> : c \in 65..90} \cup ClassMembers(p, i + 3)
  ELSE IF i + 2 <= Len(p) /\ SubSeq(p, i, i + 2) = <<DIGIT0, MINUS, DIGIT9>>
  THEN {<<c>> : c \in 48..57} \cup ClassMembers(p, i + 3)
  ELSE {SubSeq(p, i, i + utf_bytes(p[i]) - 1)} \cup ClassMembers(p, i + utf_bytes(p[i]))
\* code points of two bytes to test: U+00E9 and its neighbours
ClassProbes == {<<195, 169>>, <<195, 137>>, <<195, 170>>}

\* C29: the class of a compiled [items] holds the 26 lowercase letters for
\* a-z, the 26 uppercase letters for A-Z, the 10 digits for 0-9, every
\* other code point of the items by itself, and nothing else.
C29_ClassMembers ==
  (phase = "ready" /\ Len(hist) >= 1) =>
    /\ Len(vm.classes) = 1
    /\ vm.classes[1].ascii = {c[1] : c \in {x \in ClassMembers(pattern, 2) : Len(x) = 1}}
    /\ \A c \in ClassProbes :
         test_rev4byte(vm.classes[1], pack_rev4byte(c)) <=> c \in ClassMembers(pattern, 2)
    /\ vm.classes[1].bmp = {} /\ vm.classes[1].others = {}

\* a class with a range, a '-' by itself and a code point of two bytes was
\* compiled
C29_MixedClass ==
  /\ phase = "ready" /\ Len(hist) >= 1
  /\ pattern = <<LBRACK, CH_a, MINUS, CH_z, MINUS, 195, 169, RBRACK>>

\* ------------------------------------------------------------------------
\* Quantifiers over quantifiers: epsilon cycles
\* ------------------------------------------------------------------------
MaxCycleWordLen == 2
MaxCycleTextLen == 3
CycleWords == UNION {[1..k -> Letters] : k \in 1..MaxCycleWordLen}
\* (w q1) q2, ((w q1) q2) q3 and w q1 q2: a quantified group or letter under
\* a quantifier, as in (a*)* and (a?)+
CyclePatterns ==
  {<<LPAREN>> \o w \o <<q1, RPAREN, q2>> : w \in CycleWords, q1 \in Quantifiers, q2 \in Quantifiers}
  \cup {<<LPAREN, LPAREN>> \o w \o <<q1, RPAREN, q2, RPAREN, q3>> :
          w \in CycleWords, q1 \in Quantifiers, q2 \in Quantifiers, q3 \in Quantifiers}
  \cup {w \o <<q1, q2>> : w \in CycleWords, q1 \in Quantifiers, q2 \in Quantifiers}
\* texts of code points of one and of two bytes
RECURSIVE CycleTextsOf(_)
CycleTextsOf(n) ==
  IF n = 0 THEN {<<>>}
  ELSE {t \o c : t \in CycleTextsOf(n - 1), c \in {<<CH_a>>, <<CH_b>>, <<195, 169>>}}
CycleTexts == UNION {CycleTextsOf(n) : n \in 0..MaxCycleTextLen}
InitCycle == InitWith(CyclePatterns)
CycleMatch ==
  calls = 0 /\ \E str \in CycleTexts, Unanchored \in BOOLEAN : DoMatch(str, Unanchored)
CycleTest ==
  calls = 0 /\ \E str \in CycleTexts, Unanchored \in BOOLEAN : DoTest(str, Unanchored)
NextCycle == Construct \/ CycleMatch \/ CycleTest
SpecCycle == InitCycle /\ [][NextCycle]_vars

\* no two elements of the sequence q are the same
Distinct(q) == \A j \in 1..Len(q) : \A k \in 1..Len(q) : j # k => q[j] # q[k]

\* C30: on a compiled pattern, with or without epsilon cycles, the
\* constructor, match and test end; the threads new_thread has made in the
\* last step of a match and the ops resolve_split has put into a DFA state
\* hold each op at most once; every byte a step starts at advances the
\* input.
C30_Terminates ==
  /\ phase # "hung"
  /\ (calls = 1 /\ last.err = "ok") =>
       /\ \A k \in 1..Len(last.str) : utf_bytes(last.str[k]) >= 1
       /\ last.op = "match" => Distinct([k \in 1..Len(vm.cur) |-> vm.cur[k].ops])
       /\ last.op = "test" => \A cel \in HeldStates(vm) : Distinct(cel.ops.dense)

\* (a*)* has been run over a text of three code points
C30_CycleRun ==
  /\ calls = 1 /\ last.err = "ok" /\ last.op \in {"match", "test"}
  /\ pattern = <<LPAREN, CH_a, STAR, RPAREN, STAR>>
  /\ last.str = <<CH_a, CH_a, 195, 169>>

====
